---------------------------- MODULE Spec2Model ----------------------------
(***************************************************************************)
(* Strategy validation pipeline of the Structured-Products MCP server:     *)
(* TransactionCostModel, PortfolioState, RebalancingStrategy and           *)
(* BacktestingEngine (backtesting-engine.js), WalkForwardAnalysis and its  *)
(* StrategyOptimizer (utils/walk-forward-analysis.js), the Monte Carlo     *)
(* confidence engine and its block bootstrap                               *)
(* (utils/monte-carlo-confidence.js), the StrategyComparisonFramework and  *)
(* the DataCache (data-cache.js).                                          *)
(*                                                                         *)
(* Numbers.  JavaScript numbers are modelled in fixed point: money in      *)
(* whole dollars, share counts in 1/ShareScale shares, weights and         *)
(* thresholds in 1/WeightScale, cost rates in basis points, ratios in      *)
(* parts per million.  A division truncates towards zero.  NaN is a value  *)
(* of its own: every arithmetic operator propagates it and every           *)
(* comparison with it is false, as in JavaScript.                          *)
(***************************************************************************)
EXTENDS Integers, Sequences, FiniteSets, TLC

VARIABLES
    cash,               \* PortfolioState.cash
    totalValue,         \* PortfolioState.totalValue
    positions,          \* PortfolioState.positions: symbol -> position record
    history,            \* PortfolioState.history: one snapshot per updatePrices
    transactions,       \* PortfolioState.transactions
    costModel,          \* the TransactionCostModel in use (fields after construction)
    targetWeights,      \* RebalancingStrategy.targetWeights
    frequency,          \* RebalancingStrategy.frequency
    threshold,          \* RebalancingStrategy.threshold
    lastRebalanceDate,  \* RebalancingStrategy.lastRebalanceDate (NoDate = null)
    historicalData,     \* BacktestingEngine.historicalData: symbol -> (date -> price)
    pending,            \* runBacktest: dates of allDates not yet simulated, ascending
    pc,                 \* position inside runBacktest / simulateTradingDay
    events,             \* events fired through fireEvent, in order: <<type, date>>
    wfConfig,           \* WalkForwardConfig: lookbackWindow, holdoutWindow, stepSize
    numDates,           \* WalkForwardAnalysis: length of getAllTradingDates()
    windows,            \* runWalkForwardAnalysis: the windows not yet processed
    periods,            \* WalkForwardResult.periods
    mcConfig,           \* MonteCarloConfig: numSimulations, robustnessThreshold
    baselineReturns,    \* MonteCarloConfidenceEngine.baselineReturns
    baselineMetrics,    \* MonteCarloConfidenceEngine.baselineMetrics
    simulations,        \* runMonteCarloSimulations: the scenarios pushed so far
    cache,              \* DataCache.cache: key -> entry
    clock,              \* Date.now() as seen by the DataCache
    comparison,         \* StrategyComparisonFramework: the engine steps run so far
    client,             \* AlphaVantageClient: apiKey configured, callHistory
    requests,           \* the makeRequest calls in flight: position, attempt, timer
    call                \* the last call made on the public API and what it returned

vars == <<cash, totalValue, positions, history, transactions, costModel,
          targetWeights, frequency, threshold, lastRebalanceDate,
          historicalData, pending, pc, events, wfConfig, numDates,
          windows, periods, mcConfig, baselineReturns, baselineMetrics,
          simulations, cache, clock, comparison, client, requests, call>>

portfolioVars == <<cash, totalValue, positions, history, transactions>>
strategyVars  == <<targetWeights, frequency, threshold, lastRebalanceDate>>
engineVars    == <<historicalData, pending, pc, events>>
walkVars      == <<wfConfig, numDates>>
runVars       == <<windows, periods>>
monteCarloVars == <<mcConfig, baselineReturns, baselineMetrics, simulations>>
cacheVars     == <<cache, clock>>
clientVars    == <<client, requests>>
analysisVars  == <<runVars, monteCarloVars, cacheVars, comparison, clientVars>>

-----------------------------------------------------------------------------
(* Fixed-point scales *)

ShareScale  == 1000      \* Position.shares is kept in thousandths of a share
WeightScale == 1000      \* 1.0 as a weight or a threshold
BpsScale    == 10000     \* the 10000 that turns basis points into a rate

-----------------------------------------------------------------------------
(* JavaScript number arithmetic with NaN *)

\* The NaN that `tradeValue + costs.totalCost` yields when costs is the number 0
\* (costs.totalCost is undefined).  It lies outside every amount the model reaches.
NaN == -2000000000

IsNaN(x) == x = NaN

Abs(x) == IF x < 0 THEN -x ELSE x

\* a / b on fixed-point numbers, truncating towards zero (b > 0)
Quot(a, b) == IF a < 0 THEN -((-a) \div b) ELSE a \div b

NAdd(a, b) == IF IsNaN(a) \/ IsNaN(b) THEN NaN ELSE a + b
NSub(a, b) == IF IsNaN(a) \/ IsNaN(b) THEN NaN ELSE a - b
NMul(a, b) == IF IsNaN(a) \/ IsNaN(b) THEN NaN ELSE a * b
NDiv(a, b) == IF IsNaN(a) \/ IsNaN(b) THEN NaN ELSE Quot(a, b)
NAbs(a)    == IF IsNaN(a) THEN NaN ELSE Abs(a)
NGt(a, b)  == ~IsNaN(a) /\ ~IsNaN(b) /\ a > b
NLt(a, b)  == ~IsNaN(a) /\ ~IsNaN(b) /\ a < b
NMin(a, b) == IF IsNaN(a) \/ IsNaN(b) THEN NaN ELSE IF a < b THEN a ELSE b

\* floor(sqrt(n)) by bisection, for 0 <= lo*lo <= n < hi*hi
RECURSIVE SqrtBetween(_, _, _)
SqrtBetween(n, lo, hi) ==
    IF hi - lo <= 1 THEN lo
    ELSE LET mid == (lo + hi) \div 2
         IN  IF mid * mid <= n THEN SqrtBetween(n, mid, hi)
                               ELSE SqrtBetween(n, lo, mid)

Isqrt(n) == SqrtBetween(n, 0, 46340)

-----------------------------------------------------------------------------
(* TransactionCostModel *)

\* `config.key || dflt`: a missing key and the value 0 both give the default
OrDefault(config, key, dflt) ==
    IF key \in DOMAIN config /\ config[key] # 0 THEN config[key] ELSE dflt

\* constructor(config): the fields of the model.  marketImpactExponent is kept
\* in halves (1 = the square-root law 0.5, 2 = linear).
TransactionCostModel(config) ==
    [ fixedCost            |-> OrDefault(config, "fixedCost", 0),
      variableCostBps      |-> OrDefault(config, "variableCostBps", 5),
      marketImpactBps      |-> OrDefault(config, "marketImpactBps", 2),
      marketImpactExponent |-> OrDefault(config, "marketImpactExponent", 1),
      bidAskSpreadBps      |-> OrDefault(config, "bidAskSpreadBps", 3),
      minTradeSize         |-> OrDefault(config, "minTradeSize", 100) ]

\* the default of calculateTradeCost's averageDailyVolume parameter
DefaultDailyVolume == 1000000

\* volumeRatio = absTradeValue / averageDailyVolume, in parts per million
VolumeRatio(absTradeValue, averageDailyVolume) ==
    (absTradeValue * 1000) \div (averageDailyVolume \div 1000)

\* Math.pow(volumeRatio, marketImpactExponent), in thousandths
PowRatio(ratioPpm, exponentHalves) ==
    IF exponentHalves = 1 THEN Isqrt(ratioPpm) ELSE ratioPpm \div 1000

\* the number 0 that calculateTradeCost returns for a trade below minTradeSize
SkippedCost == [number |-> 0]

calculateTradeCost(model, tradeValue, averageDailyVolume) ==
    IF NLt(NAbs(tradeValue), model.minTradeSize) THEN SkippedCost
    ELSE IF IsNaN(tradeValue)
         THEN [ fixedCost |-> model.fixedCost, variableCost |-> NaN,
                marketImpact |-> NaN, bidAskSpread |-> NaN, totalCost |-> NaN ]
    ELSE LET absTradeValue == Abs(tradeValue)
             fixedCostAmount == model.fixedCost
             variableCostAmount == (absTradeValue * model.variableCostBps) \div BpsScale
             volumeRatio == VolumeRatio(absTradeValue, averageDailyVolume)
             marketImpactAmount ==
                 (absTradeValue * model.marketImpactBps
                    * PowRatio(volumeRatio, model.marketImpactExponent))
                 \div (BpsScale * 1000)
             bidAskCostAmount == (absTradeValue * model.bidAskSpreadBps) \div BpsScale
         IN  [ fixedCost    |-> fixedCostAmount,
               variableCost |-> variableCostAmount,
               marketImpact |-> marketImpactAmount,
               bidAskSpread |-> bidAskCostAmount,
               totalCost    |-> fixedCostAmount + variableCostAmount
                                  + marketImpactAmount + bidAskCostAmount ]

\* `costs.totalCost` as a number: undefined (costs is the number 0) adds as NaN
TotalCostOf(costs) == IF "totalCost" \in DOMAIN costs THEN costs.totalCost ELSE NaN

-----------------------------------------------------------------------------
(* PortfolioState *)

\* the symbol universe, in the order of Object.keys(positions)
Symbols == <<"A", "B">>

SymbolSet == {Symbols[i] : i \in 1..Len(Symbols)}

\* BacktestingEngine.initialCash: `config.initialCash || 100000`
InitialCash == 100000

\* constructor(initialCash, symbols)
NewPortfolioState(initialCash) ==
    [ cash         |-> initialCash,
      totalValue   |-> initialCash,
      positions    |-> [s \in SymbolSet |->
                          [shares |-> 0, avgPrice |-> 0, currentPrice |-> 0,
                           value |-> 0, weight |-> 0]],
      history      |-> << >>,
      transactions |-> << >> ]

\* `priceData[symbol]` is truthy
HasPrice(priceData, symbol) == symbol \in DOMAIN priceData /\ priceData[symbol] # 0

\* shares * price, in dollars
MarketValue(shares, price) == NDiv(NMul(shares, price), ShareScale)

\* the first loop of updatePrices over the symbols Symbols[i..]: each priced
\* position gets its price and value, and its value is added to the running total
RECURSIVE RepriceFrom(_, _, _, _)
RepriceFrom(i, pos, total, priceData) ==
    IF i > Len(Symbols) THEN [positions |-> pos, totalValue |-> total]
    ELSE LET symbol == Symbols[i]
         IN  IF HasPrice(priceData, symbol)
             THEN LET v == MarketValue(pos[symbol].shares, priceData[symbol])
                  IN  RepriceFrom(i + 1,
                        [pos EXCEPT ![symbol].currentPrice = priceData[symbol],
                                    ![symbol].value = v],
                        NAdd(total, v), priceData)
             ELSE RepriceFrom(i + 1, pos, total, priceData)

\* position.value / totalValue when totalValue > 0, else 0
WeightOf(value, total) ==
    IF NGt(total, 0) THEN NDiv(NMul(value, WeightScale), total) ELSE 0

\* updatePrices with the weights taken against the total of the previous update
updatePricesStaleTotal(ps, priceData, date) ==
    LET repriced == RepriceFrom(1, ps.positions, ps.cash, priceData)
        total == repriced.totalValue
        weighted == [s \in SymbolSet |->
                       [repriced.positions[s] EXCEPT
                          !.weight = WeightOf(repriced.positions[s].value,
                                              ps.totalValue)]]
    IN  [ps EXCEPT !.totalValue = total,
                   !.positions = weighted,
                   !.history = Append(ps.history,
                                 [date |-> date, totalValue |-> total,
                                  cash |-> ps.cash, positions |-> weighted])]

updatePrices(ps, priceData, date) ==
    LET repriced == RepriceFrom(1, ps.positions, ps.cash, priceData)
        total == repriced.totalValue
        weighted == [s \in SymbolSet |->
                       [repriced.positions[s] EXCEPT
                          !.weight = WeightOf(repriced.positions[s].value, total)]]
    IN  [ps EXCEPT !.totalValue = total,
                   !.positions = weighted,
                   !.history = Append(ps.history,
                                 [date |-> date, totalValue |-> total,
                                  cash |-> ps.cash, positions |-> weighted])]

\* the deepest nesting of executeTrade within itself that the model follows
MaxRecursion == 3

\* executeTrade; depth counts the enclosing executeTrade calls.  The value is the
\* portfolio after the call, what the call returned, and the calls it took.
RECURSIVE executeTradeAt(_, _, _, _, _, _, _)
executeTradeAt(ps, symbol, targetValue, currentPrice, model, date, depth) ==
    LET position == ps.positions[symbol]
        currentValue == position.value
        tradeValue == NSub(targetValue, currentValue)
        costs == calculateTradeCost(model, tradeValue, DefaultDailyVolume)
        totalCost == TotalCostOf(costs)
    IN  IF NGt(NAdd(tradeValue, totalCost), ps.cash)
        THEN LET availableCash == NSub(ps.cash, totalCost)
             IN  IF NGt(availableCash, 0)
                 THEN IF depth >= MaxRecursion
                      THEN [ps |-> ps, calls |-> depth + 1,
                            result |-> [executed |-> FALSE, reason |-> "recursion_bound"]]
                      ELSE executeTradeAt(ps, symbol,
                             NAdd(currentValue, NMin(tradeValue, availableCash)),
                             currentPrice, model, date, depth + 1)
                 ELSE [ps |-> ps, calls |-> depth + 1,
                       result |-> [executed |-> FALSE, reason |-> "insufficient_funds"]]
        ELSE LET sharesToTrade == NDiv(NMul(tradeValue, ShareScale), currentPrice)
                 newShares == NAdd(position.shares, sharesToTrade)
                 newAvgPrice ==
                     IF NGt(newShares, 0)
                     THEN NDiv(NAdd(NMul(position.shares, position.avgPrice),
                                    NMul(sharesToTrade, currentPrice)), newShares)
                     ELSE currentPrice
                 newCash == NSub(ps.cash, NAdd(tradeValue, totalCost))
             IN  [ps |-> [ps EXCEPT
                            !.positions[symbol].avgPrice = newAvgPrice,
                            !.positions[symbol].shares = newShares,
                            !.positions[symbol].value = MarketValue(newShares, currentPrice),
                            !.cash = newCash,
                            !.transactions = Append(ps.transactions,
                               [date |-> date, symbol |-> symbol, shares |-> sharesToTrade,
                                price |-> currentPrice, value |-> tradeValue,
                                costs |-> costs, cashAfter |-> newCash])],
                  calls |-> depth + 1,
                  result |-> [executed |-> TRUE, shares |-> sharesToTrade,
                              value |-> tradeValue, costs |-> costs]]

\* executeTrade recording a trade it did not execute as a transaction
executeTradeLoggingRejected(ps, symbol, targetValue, currentPrice, model, date) ==
    LET done == executeTradeAt(ps, symbol, targetValue, currentPrice, model, date, 0)
    IN  IF done.result.executed THEN done
        ELSE [done EXCEPT !.ps.transactions =
                 Append(@, [date |-> date, symbol |-> symbol, shares |-> 0,
                            price |-> currentPrice, value |-> 0,
                            costs |-> SkippedCost, cashAfter |-> ps.cash])]

executeTrade(ps, symbol, targetValue, currentPrice, model, date) ==
    executeTradeAt(ps, symbol, targetValue, currentPrice, model, date, 0)

\* getCurrentWeights()
getCurrentWeights(pos) == [s \in SymbolSet |-> pos[s].weight]

-----------------------------------------------------------------------------
(* RebalancingStrategy *)

\* lastRebalanceDate = null; the dates of the model are the day numbers 1, 2, ...
NoDate == 0

getFrequencyDays(freq) ==
    CASE freq = "daily"     -> 1
      [] freq = "weekly"    -> 7
      [] freq = "monthly"   -> 30
      [] freq = "quarterly" -> 90
      [] OTHER              -> 30

\* date-only strings parse to UTC midnights, so the difference is whole days
\* and Math.ceil leaves it as it is
getDaysBetween(date1, date2) == Abs(date2 - date1)

\* `currentWeights[symbol] || 0`
WeightOr0(currentWeights, symbol) ==
    IF symbol \in DOMAIN currentWeights THEN currentWeights[symbol] ELSE 0

checkThresholdRebalancing(targets, limit, currentWeights) ==
    \E symbol \in DOMAIN targets :
        Abs(WeightOr0(currentWeights, symbol) - targets[symbol]) > limit

\* needsRebalancing with `<=` for `<` in the schedule test
needsRebalancingInclusive(targets, freq, limit, last, currentWeights, date) ==
    IF last # NoDate /\ getDaysBetween(last, date) <= getFrequencyDays(freq)
    THEN checkThresholdRebalancing(targets, limit, currentWeights)
    ELSE TRUE

needsRebalancing(targets, freq, limit, last, currentWeights, date) ==
    IF last # NoDate /\ getDaysBetween(last, date) < getFrequencyDays(freq)
    THEN checkThresholdRebalancing(targets, limit, currentWeights)
    ELSE TRUE

\* getTargetValues(totalPortfolioValue)
getTargetValues(targets, totalPortfolioValue) ==
    [s \in DOMAIN targets |->
        NDiv(NMul(totalPortfolioValue, targets[s]), WeightScale)]

-----------------------------------------------------------------------------
(* BacktestingEngine *)

\* the smallest element of a non-empty set of dates
MinOf(S) == CHOOSE x \in S : \A y \in S : x <= y

\* Array.from(dateSet).sort(): ascending
RECURSIVE SortDates(_)
SortDates(S) == IF S = {} THEN << >> ELSE <<MinOf(S)>> \o SortDates(S \ {MinOf(S)})

\* the dates of the first symbol only
getDatesOfFirstSymbol(data) == SortDates(DOMAIN data[Symbols[1]])

\* getAllTradingDates(): the union of every symbol's dates, ascending
getAllTradingDates(data) == SortDates(UNION {DOMAIN data[s] : s \in DOMAIN data})

\* getPriceDataForDate(date): the symbols that have a data point on that date
getPriceDataForDate(data, date) ==
    [s \in {x \in DOMAIN data : date \in DOMAIN data[x]} |-> data[s][date]]

\* handleRebalance from the i-th key of targetValues on; trades collects, for
\* every executeTrade call, its arguments, the cash before it and its return value
RECURSIVE RebalanceFrom(_, _, _, _, _, _, _)
RebalanceFrom(i, ps, trades, targetValues, priceData, model, date) ==
    IF i > Len(Symbols) THEN [ps |-> ps, trades |-> trades]
    ELSE LET symbol == Symbols[i]
         IN  IF symbol \in DOMAIN targetValues /\ HasPrice(priceData, symbol)
             THEN LET done == executeTrade(ps, symbol, targetValues[symbol],
                                           priceData[symbol], model, date)
                  IN  RebalanceFrom(i + 1, done.ps,
                        Append(trades,
                          [symbol      |-> symbol,
                           targetValue |-> targetValues[symbol],
                           tradeValue  |-> NSub(targetValues[symbol],
                                                ps.positions[symbol].value),
                           cashBefore  |-> ps.cash,
                           sharesBefore |-> ps.positions[symbol].shares,
                           positionsBefore |-> ps.positions,
                           logBefore   |-> Len(ps.transactions),
                           cashAfter   |-> done.ps.cash,
                           positionsAfter |-> done.ps.positions,
                           logAfter    |-> Len(done.ps.transactions),
                           calls       |-> done.calls,
                           result      |-> done.result]),
                        targetValues, priceData, model, date)
             ELSE RebalanceFrom(i + 1, ps, trades, targetValues, priceData, model, date)

handleRebalance(ps, targets, priceData, model, date) ==
    RebalanceFrom(1, ps, << >>, getTargetValues(targets, ps.totalValue),
                  priceData, model, date)

\* the PortfolioState as one record
Portfolio ==
    [cash |-> cash, totalValue |-> totalValue, positions |-> positions,
     history |-> history, transactions |-> transactions]

SetPortfolio(ps) ==
    /\ cash' = ps.cash
    /\ totalValue' = ps.totalValue
    /\ positions' = ps.positions
    /\ history' = ps.history
    /\ transactions' = ps.transactions

NoCall == [op |-> "none"]

\* the date simulateTradingDay is working on
CurrentDate == Head(pending)

\* runBacktest up to its loop: allDates = getAllTradingDates()
RunBacktest ==
    /\ pc = "initialized"
    /\ pending' = getAllTradingDates(historicalData)
    /\ pc' = "market_data"
    /\ call' = [op |-> "runBacktest"]
    /\ UNCHANGED <<portfolioVars, costModel, strategyVars, historicalData, events, walkVars, analysisVars>>

\* simulateTradingDay(date), first half: fireEvent(MARKET_DATA_UPDATE) and so
\* handleMarketDataUpdate -> portfolioState.updatePrices(priceData, date)
MarketDataUpdate ==
    /\ pc = "market_data"
    /\ pending # << >>
    /\ SetPortfolio(updatePrices(Portfolio,
                      getPriceDataForDate(historicalData, CurrentDate), CurrentDate))
    /\ events' = Append(events, <<"market_data_update", CurrentDate>>)
    /\ pc' = "rebalance_check"
    /\ call' = [op |-> "updatePrices", date |-> CurrentDate,
                priceData |-> getPriceDataForDate(historicalData, CurrentDate)]
    /\ UNCHANGED <<costModel, strategyVars, historicalData, pending, walkVars, analysisVars>>

\* what simulateTradingDay asks the strategy after the market data update
RebalanceDue ==
    needsRebalancing(targetWeights, frequency, threshold, lastRebalanceDate,
                     getCurrentWeights(positions), CurrentDate)

\* the rebalance without `lastRebalanceDate = date`
RebalanceNotRecorded ==
    /\ pc = "rebalance_check"
    /\ RebalanceDue
    /\ LET done == handleRebalance(Portfolio, targetWeights,
                     getPriceDataForDate(historicalData, CurrentDate),
                     costModel, CurrentDate)
       IN  /\ SetPortfolio(done.ps)
           /\ call' = [op |-> "handleRebalance", date |-> CurrentDate,
                       trades |-> done.trades]
    /\ events' = Append(events, <<"rebalance", CurrentDate>>)
    /\ pending' = Tail(pending)
    /\ pc' = "market_data"
    /\ UNCHANGED <<costModel, strategyVars, historicalData, walkVars, analysisVars>>

\* simulateTradingDay(date), second half when needsRebalancing is true:
\* fireEvent(REBALANCE) -> handleRebalance, then lastRebalanceDate = date
Rebalance ==
    /\ pc = "rebalance_check"
    /\ RebalanceDue
    /\ LET done == handleRebalance(Portfolio, targetWeights,
                     getPriceDataForDate(historicalData, CurrentDate),
                     costModel, CurrentDate)
       IN  /\ SetPortfolio(done.ps)
           /\ call' = [op |-> "handleRebalance", date |-> CurrentDate,
                       trades |-> done.trades]
    /\ events' = Append(events, <<"rebalance", CurrentDate>>)
    /\ lastRebalanceDate' = CurrentDate
    /\ pending' = Tail(pending)
    /\ pc' = "market_data"
    /\ UNCHANGED <<costModel, targetWeights, frequency, threshold, historicalData, walkVars, analysisVars>>

\* simulateTradingDay(date), second half when needsRebalancing is false
SkipRebalance ==
    /\ pc = "rebalance_check"
    /\ ~RebalanceDue
    /\ pending' = Tail(pending)
    /\ pc' = "market_data"
    /\ call' = [op |-> "needsRebalancing", date |-> CurrentDate, result |-> FALSE]
    /\ UNCHANGED <<portfolioVars, costModel, strategyVars, historicalData, events, walkVars, analysisVars>>

\* runBacktest after its loop: generatePerformanceReport()
GenerateReport ==
    /\ pc = "market_data"
    /\ pending = << >>
    /\ pc' = "done"
    /\ call' = [op |-> "generatePerformanceReport",
                transactions |-> Len(transactions),
                cashRemaining |-> cash, totalValue |-> totalValue]
    /\ UNCHANGED <<portfolioVars, costModel, strategyVars, historicalData, pending,
                   events, walkVars, analysisVars>>

-----------------------------------------------------------------------------
(* The backtest: inputs and specification *)

\* how many calendar dates the price histories span
NumDates == 3

\* the i-th calendar date as a day number: two consecutive days, then later
\* consecutive days more than a month on
TradingDay(i) == IF i <= 2 THEN i ELSE 30 + i

CalendarDates == {TradingDay(i) : i \in 1..NumDates}

\* the prices a symbol can have
PricesOf(symbol) == IF symbol = "A" THEN {100, 200} ELSE {100}

\* the non-empty price histories of one symbol
HistoriesOf(symbol) ==
    UNION {[D -> PricesOf(symbol)] : D \in (SUBSET CalendarDates) \ {{}}}

\* target weights that sum to 1
TargetChoices == {[s \in SymbolSet |-> 500],
                  [s \in SymbolSet |-> IF s = "A" THEN 700 ELSE 300]}

\* RebalancingStrategy's default threshold 0.05
DefaultThreshold == 50

IdleWalk == /\ wfConfig = [lookbackWindow |-> 0, holdoutWindow |-> 0, stepSize |-> 0]
            /\ numDates = 0

\* no walk-forward run has started
IdleRun == /\ windows = << >>
           /\ periods = << >>

\* a MonteCarloConfidenceEngine before initialize()
IdleMonteCarlo ==
    /\ mcConfig = [numSimulations |-> 0, robustnessThreshold |-> 0,
                   blockBootstrapLength |-> 0]
    /\ baselineReturns = << >>
    /\ baselineMetrics = [set |-> FALSE]
    /\ simulations = << >>

\* an empty DataCache
IdleCache == /\ cache = << >>
             /\ clock = 0

\* no comparison has started
IdleComparison == comparison = << >>

\* no Alpha Vantage client in use
IdleClient == /\ client = [apiKeyConfigured |-> FALSE, callHistory |-> << >>]
              /\ requests = << >>

IdleAnalyses == IdleRun /\ IdleMonteCarlo /\ IdleCache /\ IdleComparison /\ IdleClient

\* the state of a new PortfolioState(initialCash, symbols)
SetPortfolioInit ==
    /\ cash = NewPortfolioState(InitialCash).cash
    /\ totalValue = NewPortfolioState(InitialCash).totalValue
    /\ positions = NewPortfolioState(InitialCash).positions
    /\ history = NewPortfolioState(InitialCash).history
    /\ transactions = NewPortfolioState(InitialCash).transactions

InitBacktest ==
    /\ IdleAnalyses
    /\ SetPortfolioInit
    /\ costModel = TransactionCostModel([fixedCost |-> 0])
    /\ targetWeights \in TargetChoices
    /\ frequency \in {"daily", "monthly"}
    /\ threshold = DefaultThreshold
    /\ lastRebalanceDate = NoDate
    /\ historicalData \in [SymbolSet -> UNION {HistoriesOf(s) : s \in SymbolSet}]
    /\ \A s \in SymbolSet : historicalData[s] \in HistoriesOf(s)
    /\ pending = << >>
    /\ pc = "initialized"
    /\ events = << >>
    /\ IdleWalk
    /\ call = NoCall

NextBacktest ==
    \/ RunBacktest
    \/ MarketDataUpdate
    \/ Rebalance
    \/ SkipRebalance
    \/ GenerateReport

SpecBacktest == InitBacktest /\ [][NextBacktest]_vars

-----------------------------------------------------------------------------
(* Properties of the backtest *)

\* a == b as JavaScript numbers: NaN equals nothing
NumEq(a, b) == ~IsNaN(a) /\ ~IsNaN(b) /\ a = b

RECURSIVE SumValuesFrom(_, _)
SumValuesFrom(i, pos) ==
    IF i > Len(Symbols) THEN 0
    ELSE NAdd(pos[Symbols[i]].value, SumValuesFrom(i + 1, pos))

\* the sum of the market values of all positions
SumValues(pos) == SumValuesFrom(1, pos)

RECURSIVE SumWeightsFrom(_, _)
SumWeightsFrom(i, pos) ==
    IF i > Len(Symbols) THEN 0
    ELSE pos[Symbols[i]].weight + SumWeightsFrom(i + 1, pos)

\* the sum of the weights of all positions, in 1/WeightScale
SumWeights(pos) == SumWeightsFrom(1, pos)

\* updatePrices has just returned
AfterUpdatePrices == pc = "rebalance_check"

\* C1: right after each updatePrices call of a backtest, totalValue equals cash
\* plus the sum of the market values of all positions, also on dates on which
\* some symbol has no price.
C1_TotalValueIsCashPlusPositions ==
    AfterUpdatePrices => NumEq(totalValue, NAdd(cash, SumValues(positions)))

\* C2 as stated: after every updatePrices call with totalValue > 0 the weights
\* of all positions sum to 1, within one unit of rounding per position.
C2_WeightsSumToOne ==
    (AfterUpdatePrices /\ NGt(totalValue, 0))
        => Abs(SumWeights(positions) - WeightScale) <= Len(Symbols)

\* C2 amended: after every updatePrices call with totalValue > 0 the weights of
\* all positions sum to (the sum of the position values) / totalValue, within one
\* unit of rounding per position: cash is part of totalValue and has no weight.
C2_WeightsSumToInvestedShare ==
    (AfterUpdatePrices /\ NGt(totalValue, 0))
        => /\ ~IsNaN(SumValues(positions))
           /\ Abs(WeightScale * SumValues(positions)
                    - totalValue * SumWeights(positions))
                < Len(Symbols) * totalValue

\* C2 witness: an update with holdings and cash, where the weights sum to less than 1
C2_Witness ==
    /\ AfterUpdatePrices
    /\ NGt(totalValue, 0)
    /\ NGt(cash, 1000)
    /\ \A s \in SymbolSet : positions[s].weight > 0
    /\ SumWeights(positions) < WeightScale - Len(Symbols)

\* the trade asked for needs more cash than there is
NeedsMoreCashThanAvailable(t) == NGt(t.tradeValue, t.cashBefore)

\* the trade ended as a reduced trade or as insufficient_funds
ReducedOrRejected(t) ==
    \/ t.result.executed /\ NLt(t.result.value, t.tradeValue)
    \/ ~t.result.executed /\ t.result.reason = "insufficient_funds"

\* C3: cash is never a negative number, and an executeTrade whose target needs
\* more cash than is available executes a reduced trade or returns
\* insufficient_funds.
C3_CashNeverNegative ==
    /\ ~NLt(cash, 0)
    /\ call.op = "handleRebalance" =>
          \A i \in 1..Len(call.trades) :
              NeedsMoreCashThanAvailable(call.trades[i])
                  => ReducedOrRejected(call.trades[i])

\* the dates of the events of one type, in the order fired
RECURSIVE DatesOf(_, _)
DatesOf(type, evs) ==
    IF evs = << >> THEN << >>
    ELSE (IF Head(evs)[1] = type THEN <<Head(evs)[2]>> ELSE << >>)
           \o DatesOf(type, Tail(evs))

\* the date of the last REBALANCE fired, NoDate when none has
LastRebalanceFired ==
    LET ds == DatesOf("rebalance", events)
    IN  IF ds = << >> THEN NoDate ELSE ds[Len(ds)]

\* C4: on every simulated date the price update comes first and appends exactly
\* one snapshot for that date; needsRebalancing is evaluated and trades are made
\* only after it; lastRebalanceDate is the date of the last REBALANCE fired.
C4_UpdateThenRebalance ==
    /\ DatesOf("market_data_update", events) = [i \in 1..Len(history) |-> history[i].date]
    /\ \A i, j \in 1..Len(history) : i < j => history[i].date < history[j].date
    /\ \A i \in 1..Len(events) :
           events[i][1] = "rebalance"
               => i > 1 /\ events[i - 1] = <<"market_data_update", events[i][2]>>
    /\ AfterUpdatePrices => history[Len(history)].date = CurrentDate
    /\ \A i \in 1..Len(transactions) :
           \E j \in 1..Len(events) : events[j] = <<"rebalance", transactions[i].date>>
    /\ lastRebalanceDate = LastRebalanceFired

\* C4 witness: a run in which a REBALANCE fired on one date and none on a later one
C4_Witness ==
    /\ pc = "market_data"
    /\ lastRebalanceDate # NoDate
    /\ Len(history) > 0
    /\ history[Len(history)].date > lastRebalanceDate
    /\ Len(transactions) > 0

\* both symbols have the same price on every calendar date
FlatPrices ==
    \A s \in SymbolSet :
        /\ DOMAIN historicalData[s] = CalendarDates
        /\ \A d \in CalendarDates : historicalData[s][d] = 100

\* the weights are within the threshold of their targets
WithinThreshold ==
    \A s \in SymbolSet : Abs(positions[s].weight - targetWeights[s]) <= threshold

\* C8: with initial cash 100000 and two symbols at flat prices, the weights seen
\* on every date after the first rebalance are within the threshold of the
\* targets, and no trade is executed after the first rebalance.
C8_FlatPricesTradeOnce ==
    FlatPrices =>
        /\ (AfterUpdatePrices /\ lastRebalanceDate # NoDate) => WithinThreshold
        /\ \A i \in 1..Len(transactions) : transactions[i].date = TradingDay(1)

-----------------------------------------------------------------------------
(* RebalancingStrategy called directly *)

\* the state the other components are in while one component is exercised alone
IdlePortfolio == SetPortfolioInit

IdleEngine ==
    /\ historicalData = [s \in SymbolSet |-> << >>]
    /\ pending = << >>
    /\ pc = "idle"
    /\ events = << >>

\* dates on both sides of every cadence's day count, counted from day 1
StrategyDates == {1, 2, 7, 8, 30, 31, 90, 91}

\* current weights handed to needsRebalancing: on target, drifted by exactly the
\* threshold, drifted beyond it, and a map that lacks a symbol
WeightChoices ==
    {[s \in SymbolSet |-> 500],
     [s \in SymbolSet |-> IF s = "A" THEN 550 ELSE 450],
     [s \in SymbolSet |-> IF s = "A" THEN 560 ELSE 440],
     [s \in {"A"} |-> 500]}

InitStrategy ==
    /\ IdleAnalyses
    /\ IdlePortfolio
    /\ costModel = TransactionCostModel([fixedCost |-> 0])
    /\ targetWeights \in TargetChoices
    /\ frequency \in {"daily", "weekly", "monthly", "quarterly", "yearly"}
    /\ threshold = DefaultThreshold
    /\ lastRebalanceDate = NoDate
    /\ IdleEngine
    /\ IdleWalk
    /\ call = NoCall

\* the previous call was needsRebalancing with these very arguments
SameAsPreviousCall(currentWeights, date) ==
    /\ call.op = "needsRebalancing"
    /\ call.date = date
    /\ call.currentWeights = currentWeights

\* a needsRebalancing call that also records the date as the last rebalance
NeedsRebalancingCallMarking(currentWeights, date) ==
    /\ date >= lastRebalanceDate
    /\ LET result == needsRebalancing(targetWeights, frequency, threshold,
                                      lastRebalanceDate, currentWeights, date)
       IN  call' = [op |-> "needsRebalancing",
                    currentWeights |-> currentWeights, date |-> date,
                    result |-> result,
                    before |-> [lastRebalanceDate |-> lastRebalanceDate,
                                targetWeights |-> targetWeights],
                    repeated |-> SameAsPreviousCall(currentWeights, date),
                    previousResult |-> IF SameAsPreviousCall(currentWeights, date)
                                       THEN call.result ELSE result]
    /\ lastRebalanceDate' = date
    /\ UNCHANGED <<portfolioVars, costModel, targetWeights, frequency, threshold,
                   engineVars, walkVars, analysisVars>>

\* a call of needsRebalancing(currentWeights, date); the engine hands in
\* ascending dates, so date is not before lastRebalanceDate
NeedsRebalancingCall(currentWeights, date) ==
    /\ date >= lastRebalanceDate
    /\ LET result == needsRebalancing(targetWeights, frequency, threshold,
                                      lastRebalanceDate, currentWeights, date)
       IN  call' = [op |-> "needsRebalancing",
                    currentWeights |-> currentWeights, date |-> date,
                    result |-> result,
                    before |-> [lastRebalanceDate |-> lastRebalanceDate,
                                targetWeights |-> targetWeights],
                    repeated |-> SameAsPreviousCall(currentWeights, date),
                    previousResult |-> IF SameAsPreviousCall(currentWeights, date)
                                       THEN call.result ELSE result]
    /\ UNCHANGED <<portfolioVars, costModel, strategyVars, engineVars, walkVars, analysisVars>>

\* simulateTradingDay's `this.rebalancingStrategy.lastRebalanceDate = date`
MarkRebalanced(date) ==
    /\ date >= lastRebalanceDate
    /\ lastRebalanceDate' = date
    /\ call' = [op |-> "rebalanced", date |-> date]
    /\ UNCHANGED <<portfolioVars, costModel, targetWeights, frequency, threshold,
                   engineVars, walkVars, analysisVars>>

\* updateWeights(newWeights)
UpdateWeights(newWeights) ==
    /\ targetWeights' = newWeights
    /\ call' = [op |-> "updateWeights"]
    /\ UNCHANGED <<portfolioVars, costModel, frequency, threshold, lastRebalanceDate,
                   engineVars, walkVars, analysisVars>>

NextStrategy ==
    \/ \E w \in WeightChoices, d \in StrategyDates : NeedsRebalancingCall(w, d)
    \/ \E d \in StrategyDates : MarkRebalanced(d)
    \/ \E w \in TargetChoices : UpdateWeights(w)

SpecStrategy == InitStrategy /\ [][NextStrategy]_vars

\* the day count the claim gives for each cadence
CadenceDays ==
    [daily |-> 1, weekly |-> 7, monthly |-> 30, quarterly |-> 90]

\* some target asset's weight is further than the threshold from its target
DriftedBeyondThreshold(currentWeights) ==
    \E s \in DOMAIN targetWeights :
        LET current == IF s \in DOMAIN currentWeights THEN currentWeights[s] ELSE 0
        IN  \/ current - targetWeights[s] > threshold
            \/ targetWeights[s] - current > threshold

\* C5: needsRebalancing returns true if and only if lastRebalanceDate is unset,
\* or the days since it are at least the cadence's day count, or some target
\* asset has drifted beyond the threshold.
C5_NeedsRebalancingIff ==
    (call.op = "needsRebalancing" /\ frequency \in DOMAIN CadenceDays)
        => (call.result <=>
              \/ lastRebalanceDate = NoDate
              \/ call.date - lastRebalanceDate >= CadenceDays[frequency]
              \/ DriftedBeyondThreshold(call.currentWeights))

\* C5 witness: drift alone triggers a rebalance before the scheduled date
C5_Witness ==
    /\ call.op = "needsRebalancing"
    /\ frequency = "quarterly"
    /\ lastRebalanceDate # NoDate
    /\ call.date - lastRebalanceDate < 90
    /\ call.date - lastRebalanceDate >= 30
    /\ call.result

\* C6: a needsRebalancing call leaves lastRebalanceDate and targetWeights as they
\* were, and a second call with the same date and weights, with no rebalance in
\* between, returns what the first returned.
C6_NeedsRebalancingIdempotent ==
    call.op = "needsRebalancing"
        => /\ lastRebalanceDate = call.before.lastRebalanceDate
           /\ targetWeights = call.before.targetWeights
           /\ call.repeated => call.result = call.previousResult

\* C6 witness: the same call made twice in a row, on a strategy not yet rebalanced
C6_Witness ==
    /\ call.op = "needsRebalancing"
    /\ call.repeated
    /\ call.result
    /\ lastRebalanceDate = NoDate

-----------------------------------------------------------------------------
(* TransactionCostModel called directly *)

\* the constructor configurations tried: variableCostBps left out or given
CostConfigs ==
    {[fixedCost |-> 0]}
      \cup {[fixedCost |-> 0, variableCostBps |-> b] : b \in {0, 1, 5, 10}}

TradeValues == {50, 150, 50000, -50000}

DailyVolumes == {DefaultDailyVolume, 250000}

InitCost ==
    /\ IdleAnalyses
    /\ IdlePortfolio
    /\ costModel = TransactionCostModel([fixedCost |-> 0])
    /\ targetWeights = [s \in SymbolSet |-> 500]
    /\ frequency = "monthly"
    /\ threshold = DefaultThreshold
    /\ lastRebalanceDate = NoDate
    /\ IdleEngine
    /\ IdleWalk
    /\ call = NoCall

\* new TransactionCostModel(config).calculateTradeCost(tradeValue, volume); the
\* call before it is kept for comparison
CalculateTradeCostCall(config, tradeValue, volume) ==
    /\ costModel' = TransactionCostModel(config)
    /\ call' = [op |-> "calculateTradeCost", config |-> config,
                tradeValue |-> tradeValue, volume |-> volume,
                result |-> calculateTradeCost(TransactionCostModel(config),
                                              tradeValue, volume),
                previous |-> IF call.op = "calculateTradeCost"
                             THEN [config |-> call.config,
                                   tradeValue |-> call.tradeValue,
                                   volume |-> call.volume, result |-> call.result]
                             ELSE NoCall]
    /\ UNCHANGED <<portfolioVars, strategyVars, engineVars, walkVars, analysisVars>>

NextCost ==
    \E config \in CostConfigs, tradeValue \in TradeValues, volume \in DailyVolumes :
        CalculateTradeCostCall(config, tradeValue, volume)

SpecCost == InitCost /\ [][NextCost]_vars

\* the total of a returned cost: the number 0 itself for a skipped trade
TotalOfResult(costs) == IF costs = SkippedCost THEN 0 ELSE costs.totalCost

\* two configurations that give variableCostBps and agree on everything else
DifferOnlyInVariableCost(c1, c2) ==
    /\ DOMAIN c1 = DOMAIN c2
    /\ "variableCostBps" \in DOMAIN c1
    /\ \A k \in DOMAIN c1 \ {"variableCostBps"} : c1[k] = c2[k]

\* C7: for the same trade value and volume and all other settings equal, the
\* model configured with the larger variableCostBps never yields the smaller
\* total cost, zero included.
C7_VariableCostMonotone ==
    (/\ call.op = "calculateTradeCost"
     /\ call.previous # NoCall
     /\ call.previous.tradeValue = call.tradeValue
     /\ call.previous.volume = call.volume
     /\ DifferOnlyInVariableCost(call.previous.config, call.config)
     /\ call.previous.config.variableCostBps <= call.config.variableCostBps)
        => TotalOfResult(call.previous.result) <= TotalOfResult(call.result)

-----------------------------------------------------------------------------
(* WalkForwardAnalysis.generateTimeWindows *)

Min(a, b) == IF a < b THEN a ELSE b

\* the while loop of generateTimeWindows from startIndex on; a date is its index
\* in allDates (0-based)
RECURSIVE WindowsFrom(_, _, _)
WindowsFrom(startIndex, config, length) ==
    IF startIndex + config.holdoutWindow < length
    THEN << [ optimizationStart |-> startIndex - config.lookbackWindow,
              optimizationEnd   |-> startIndex - 1,
              testStart         |-> startIndex,
              testEnd           |-> Min(startIndex + config.holdoutWindow - 1,
                                        length - 1) ] >>
            \o WindowsFrom(startIndex + config.stepSize, config, length)
    ELSE << >>

\* the loop advancing by holdoutWindow instead of stepSize
RECURSIVE WindowsByHoldoutFrom(_, _, _)
WindowsByHoldoutFrom(startIndex, config, length) ==
    IF startIndex + config.holdoutWindow < length
    THEN << [ optimizationStart |-> startIndex - config.lookbackWindow,
              optimizationEnd   |-> startIndex - 1,
              testStart         |-> startIndex,
              testEnd           |-> Min(startIndex + config.holdoutWindow - 1,
                                        length - 1) ] >>
            \o WindowsByHoldoutFrom(startIndex + config.holdoutWindow, config, length)
    ELSE << >>

generateTimeWindowsByHoldout(config, length) ==
    IF length < config.lookbackWindow + config.holdoutWindow THEN << >>
    ELSE WindowsByHoldoutFrom(config.lookbackWindow, config, length)

\* the windows with the test range starting on the last optimization date
generateTimeWindowsOverlapping(config, length) ==
    LET ws == IF length < config.lookbackWindow + config.holdoutWindow THEN << >>
              ELSE WindowsFrom(config.lookbackWindow, config, length)
    IN  [i \in 1..Len(ws) |-> [ws[i] EXCEPT !.testStart = @ - 1]]

generateTimeWindows(config, length) ==
    IF length < config.lookbackWindow + config.holdoutWindow THEN << >>
    ELSE WindowsFrom(config.lookbackWindow, config, length)

\* validateData() accepts the data
validateData(config, length) ==
    ~(length < config.lookbackWindow + config.holdoutWindow)

\* the largest window lengths, step and history length tried
MaxLookback == 3
MaxHoldout  == 3
MaxStep     == 3
MaxHistory  == 9

\* the defaults of WalkForwardConfig, on 400 trading dates
DefaultWalk == [lookbackWindow |-> 252, holdoutWindow |-> 63, stepSize |-> 21]

InitWalk ==
    /\ IdleAnalyses
    /\ IdlePortfolio
    /\ costModel = TransactionCostModel([fixedCost |-> 0])
    /\ targetWeights = [s \in SymbolSet |-> 500]
    /\ frequency = "monthly"
    /\ threshold = DefaultThreshold
    /\ lastRebalanceDate = NoDate
    /\ IdleEngine
    /\ \/ /\ wfConfig \in [lookbackWindow : 1..MaxLookback,
                           holdoutWindow : 1..MaxHoldout,
                           stepSize : 1..MaxStep]
          /\ numDates \in 0..MaxHistory
       \/ /\ wfConfig = DefaultWalk
          /\ numDates \in {314, 315, 316, 400}
    /\ call = NoCall

\* initialize(symbols, historicalData): validateData() throws on too short a history
InitializeWalk ==
    /\ call.op = "none"
    /\ call' = [op |-> "initialize", threw |-> ~validateData(wfConfig, numDates)]
    /\ UNCHANGED <<portfolioVars, costModel, strategyVars, engineVars, walkVars, analysisVars>>

\* generateTimeWindows()
GenerateTimeWindows ==
    /\ call.op = "initialize"
    /\ ~call.threw
    /\ call' = [op |-> "generateTimeWindows",
                windows |-> generateTimeWindows(wfConfig, numDates)]
    /\ UNCHANGED <<portfolioVars, costModel, strategyVars, engineVars, walkVars, analysisVars>>

NextWalk ==
    \/ InitializeWalk
    \/ GenerateTimeWindows

SpecWalk == InitWalk /\ [][NextWalk]_vars

\* C9: lookbackWindow 252, holdoutWindow 63 and stepSize 21 over 400 trading
\* dates give exactly floor((400 - 252 - 63) / 21) + 1 = 5 windows.
C9_DefaultWindowsOver400Dates ==
    (call.op = "generateTimeWindows" /\ wfConfig = DefaultWalk /\ numDates = 400)
        => Len(call.windows) = ((400 - 252 - 63) \div 21) + 1

\* C9 witness: the five windows of that run
C9_Witness ==
    /\ call.op = "generateTimeWindows"
    /\ wfConfig = DefaultWalk
    /\ numDates = 400
    /\ Len(call.windows) = 5
    /\ call.windows[5].testStart = 252 + 4 * 21

\* C10: every history of N >= lookbackWindow + holdoutWindow dates yields
\* floor((N - lookbackWindow - holdoutWindow) / stepSize) + 1 windows.
C10_WindowCountFormula ==
    (call.op = "generateTimeWindows"
       /\ numDates >= wfConfig.lookbackWindow + wfConfig.holdoutWindow)
        => Len(call.windows)
             = ((numDates - wfConfig.lookbackWindow - wfConfig.holdoutWindow)
                   \div wfConfig.stepSize) + 1


-----------------------------------------------------------------------------
(* WalkForwardAnalysis.runWalkForwardAnalysis *)
(*                                                                         *)
(* What the optimizer and the two backtests of one window do is an input   *)
(* of the run: the in-sample backtest throws (validateHistoricalData), the *)
(* out-of-sample backtest returns null statistics (getPerformanceStats on  *)
(* fewer than two snapshots), or both succeed with some statistics.        *)
(* Returns, Sharpe ratios and drawdowns are in 1/WeightScale.              *)

RECURSIVE SumSeq(_)
SumSeq(xs) == IF xs = << >> THEN 0 ELSE Head(xs) + SumSeq(Tail(xs))

\* mean() of simple-statistics on a non-empty array
mean(xs) == Quot(SumSeq(xs), Len(xs))

RECURSIVE SumSquaresAround(_, _)
SumSquaresAround(xs, m) ==
    IF xs = << >> THEN 0
    ELSE (Head(xs) - m) * (Head(xs) - m) + SumSquaresAround(Tail(xs), m)

\* standardDeviation() of simple-statistics (population) on a non-empty array
standardDeviation(xs) == Isqrt(Quot(SumSquaresAround(xs, mean(xs)), Len(xs)))

\* xs.filter(x => x > 0).length
RECURSIVE CountPositive(_)
CountPositive(xs) ==
    IF xs = << >> THEN 0
    ELSE (IF Head(xs) > 0 THEN 1 ELSE 0) + CountPositive(Tail(xs))

\* a / b of two counts, as a fraction in 1/WeightScale
Fraction(a, b) == Quot(a * WeightScale, b)

\* the statistics getPerformanceStats returns for one backtest
PeriodStats(totalReturn, sharpeRatio, maxDrawdown, returns) ==
    [totalReturn |-> totalReturn, sharpeRatio |-> sharpeRatio,
     maxDrawdown |-> maxDrawdown, totalTransactionCosts |-> 0,
     returns |-> returns]

NullStats == [null |-> TRUE]

IsNull(stats) == "null" \in DOMAIN stats

\* what the backtests of one window may do
PeriodOutcomes ==
    { [inSample |-> "throws", outOfSample |-> NullStats],
      [inSample |-> "ok", outOfSample |-> NullStats],
      [inSample |-> "ok", outOfSample |-> PeriodStats(50, 800, 20, <<30, 20>>)],
      [inSample |-> "ok", outOfSample |-> PeriodStats(-100, 300, 150, <<-150, 50>>)],
      [inSample |-> "ok", outOfSample |-> PeriodStats(-40, -500, 60, <<-40>>)] }

\* getFallbackStrategy().parameters
FallbackParameters == [method |-> "equal_weight"]

\* processWalkForwardPeriod(window, periodIndex); `threw` records whether the
\* try block was left through its catch clause
processWalkForwardPeriod(window, outcome) ==
    LET period == [startDate |-> window.optimizationStart,
                   endDate |-> window.testEnd,
                   optimalParameters |-> FallbackParameters,
                   inSampleStats |-> NullStats,
                   outOfSampleStats |-> NullStats,
                   transactionCosts |-> 0,
                   success |-> FALSE,
                   threw |-> FALSE]
    IN  IF outcome.inSample = "throws"
        THEN [period EXCEPT !.threw = TRUE]
        ELSE IF IsNull(outcome.outOfSample)
        \* outOfSampleBacktest.totalTransactionCosts on null throws
        THEN [period EXCEPT !.inSampleStats = PeriodStats(0, 0, 0, <<0>>),
                            !.threw = TRUE]
        ELSE [period EXCEPT !.inSampleStats = PeriodStats(0, 0, 0, <<0>>),
                            !.outOfSampleStats = outcome.outOfSample,
                            !.transactionCosts =
                                outcome.outOfSample.totalTransactionCosts,
                            !.success = TRUE]

RECURSIVE Collect(_, _)
\* ps.map(p => p.outOfSampleStats[field])
Collect(ps, field) ==
    IF ps = << >> THEN << >>
    ELSE <<Head(ps).outOfSampleStats[field]>> \o Collect(Tail(ps), field)

RECURSIVE Flatten(_)
Flatten(xss) == IF xss = << >> THEN << >> ELSE Head(xss) \o Flatten(Tail(xss))

IsSuccessfulWithStats(p) == p.success /\ ~IsNull(p.outOfSampleStats)

IsSuccessful(p) == p.success

\* period.outOfSampleStats?.[field] || 0
StatOr0(p, field) ==
    IF IsNull(p.outOfSampleStats) THEN 0 ELSE p.outOfSampleStats[field]

RECURSIVE CollectOr0(_, _)
CollectOr0(ps, field) ==
    IF ps = << >> THEN << >>
    ELSE <<StatOr0(Head(ps), field)>> \o CollectOr0(Tail(ps), field)

RECURSIVE SumCosts(_)
SumCosts(ps) ==
    IF ps = << >> THEN 0 ELSE Head(ps).transactionCosts + SumCosts(Tail(ps))

\* calculateConsistency(returns)
calculateConsistency(returns) ==
    IF Len(returns) = 0 THEN 0
    ELSE Fraction(CountPositive(returns), Len(returns))

\* calculateAggregateStats(periods)
calculateAggregateStats(ps) ==
    LET successfulPeriods == SelectSeq(ps, IsSuccessfulWithStats)
        totalReturns == Collect(successfulPeriods, "totalReturn")
    IN  IF Len(successfulPeriods) = 0 THEN NullStats
        ELSE [periods |-> Len(successfulPeriods),
              averageReturn |-> mean(totalReturns),
              averageSharpeRatio |->
                  mean(Collect(successfulPeriods, "sharpeRatio")),
              averageMaxDrawdown |->
                  mean(Collect(successfulPeriods, "maxDrawdown")),
              volatility |->
                  standardDeviation(Flatten(Collect(successfulPeriods, "returns"))),
              totalTransactionCosts |-> SumCosts(successfulPeriods),
              winRate |-> Fraction(CountPositive(totalReturns), Len(totalReturns)),
              consistency |-> calculateConsistency(totalReturns)]

\* the score of `chosen`, the periods calculateRobustnessScore keeps
RobustnessOf(chosen) ==
    IF Len(chosen) = 0 THEN 0
    ELSE LET returns == CollectOr0(chosen, "totalReturn")
             sharpeRatios == CollectOr0(chosen, "sharpeRatio")
         IN  Quot(Fraction(CountPositive(returns), Len(returns))
                    + Fraction(CountPositive(sharpeRatios), Len(sharpeRatios)), 2)

\* calculateRobustnessScore without its filter on period.success
calculateRobustnessScoreAllPeriods(ps) == RobustnessOf(ps)

\* calculateRobustnessScore(periods)
calculateRobustnessScore(ps) == RobustnessOf(SelectSeq(ps, IsSuccessful))

\* config.robustnessThreshold || 0.5
RobustnessThreshold == 500


\* the largest window length or step, and the longest history, of a run
MaxRunWindow  == 2
MaxRunHistory == 6

\* the periods findBestParameters counts
HasCountedParameters(p) == p.success /\ ~IsNull(p.optimalParameters)

\* parameterCounts[JSON.stringify(parameters)]
ParameterCount(ps, parameters) ==
    Len(SelectSeq(ps, LAMBDA p : HasCountedParameters(p) /\ p.optimalParameters = parameters))

\* findBestParameters(periods): the keys of parameterCounts are in the order
\* of their first period and the sort is stable, so among the most frequent
\* parameters the ones seen first are returned
findBestParameters(ps) ==
    LET counted == SelectSeq(ps, HasCountedParameters)
        best == CHOOSE i \in 1..Len(counted) :
                   /\ \A j \in 1..Len(counted) :
                         ParameterCount(ps, counted[j].optimalParameters)
                            <= ParameterCount(ps, counted[i].optimalParameters)
                   /\ \A j \in 1..(i - 1) :
                         ParameterCount(ps, counted[j].optimalParameters)
                            < ParameterCount(ps, counted[i].optimalParameters)
    IN  IF Len(counted) = 0 THEN NullStats ELSE counted[best].optimalParameters

InitWalkRun ==
    /\ IdleAnalyses
    /\ IdlePortfolio
    /\ costModel = TransactionCostModel([fixedCost |-> 0])
    /\ targetWeights = [s \in SymbolSet |-> 500]
    /\ frequency = "monthly"
    /\ threshold = DefaultThreshold
    /\ lastRebalanceDate = NoDate
    /\ IdleEngine
    /\ wfConfig \in [lookbackWindow : 1..MaxRunWindow,
                     holdoutWindow : 1..MaxRunWindow,
                     stepSize : 1..MaxRunWindow]
    /\ numDates \in 0..MaxRunHistory
    /\ call = NoCall

\* runWalkForwardAnalysis() up to its loop: no window at all is an error
RunWalkForwardAnalysis ==
    /\ call.op = "initialize"
    /\ ~call.threw
    /\ LET generated == generateTimeWindows(wfConfig, numDates)
       IN  /\ windows' = generated
           /\ periods' = << >>
           /\ call' = IF Len(generated) = 0
                      THEN [op |-> "runWalkForwardAnalysis", threw |-> TRUE,
                            generated |-> 0]
                      ELSE [op |-> "processing", generated |-> Len(generated)]
    /\ UNCHANGED <<portfolioVars, costModel, strategyVars, engineVars, walkVars,
                   monteCarloVars, cacheVars, comparison, clientVars>>

\* one turn of the loop: processWalkForwardPeriod on the next window
ProcessWalkForwardPeriod ==
    /\ call.op = "processing"
    /\ windows # << >>
    /\ \E outcome \in PeriodOutcomes :
          periods' = Append(periods, processWalkForwardPeriod(Head(windows), outcome))
    /\ windows' = Tail(windows)
    /\ UNCHANGED <<portfolioVars, costModel, strategyVars, engineVars, walkVars,
                   monteCarloVars, cacheVars, comparison, clientVars, call>>

\* after the loop: the aggregation and the returned WalkForwardResult
FinishWalkForward ==
    /\ call.op = "processing"
    /\ windows = << >>
    /\ LET score == calculateRobustnessScore(periods)
       IN  call' = [op |-> "runWalkForwardAnalysis", threw |-> FALSE,
                    generated |-> call.generated,
                    result |-> [periods |-> periods,
                                aggregateStats |-> calculateAggregateStats(periods),
                                robustnessScore |-> score,
                                isRobust |-> score >= RobustnessThreshold,
                                bestParameters |-> findBestParameters(periods)]]
    /\ UNCHANGED <<portfolioVars, costModel, strategyVars, engineVars, walkVars,
                   runVars, monteCarloVars, cacheVars, comparison, clientVars>>

NextWalkRun ==
    \/ InitializeWalk
    \/ RunWalkForwardAnalysis
    \/ ProcessWalkForwardPeriod
    \/ FinishWalkForward

SpecWalkRun == InitWalkRun /\ [][NextWalkRun]_vars

\* the period did not leave its try block through the catch clause
Completed(p) == ~p.threw

-----------------------------------------------------------------------------
(* PortfolioStrategyOptimizer *)
(*                                                                         *)
(* What the numerical core (optimizeRiskParityCore,                        *)
(* optimizePortfolioMinVariance, blackLittermanOptimization) does on one   *)
(* grid cell is an input: it throws, or it returns a result.  A throw is   *)
(* the value Raised; scores, returns and volatilities are in 1/WeightScale. *)

Raised == [raised |-> TRUE]

IsRaised(x) == "raised" \in DOMAIN x

\* the weights a numerical core returns for n symbols
CoreWeights(n, tilt) ==
    [i \in 1..n |-> IF i = 1 THEN WeightScale - (n - 1) * tilt ELSE tilt]

\* getFallbackStrategy()
getFallbackStrategy(n) ==
    [weights |-> [i \in 1..n |-> Quot(WeightScale, n)],
     parameters |-> FallbackParameters,
     score |-> 0,
     fallback |-> TRUE]

\* the cell of the grid visited k-th by two nested loops over ranges of
\* lengths Len(outer) and Len(inner)
CellParameters(outer, inner, k) ==
    <<outer[((k - 1) \div Len(inner)) + 1], inner[((k - 1) % Len(inner)) + 1]>>

\* result.riskParityScore - (result.iterations / maxIterations) * 0.1
RiskParityScore(cell, maxIterations) ==
    cell.quality - Quot(cell.iterations * 100, maxIterations)

\* portfolioVol > 0 ? (portfolioReturn - 0.05) / portfolioVol : 0
MeanVarianceScore(cell) ==
    IF cell.volatility > 0
    THEN Quot((cell.quality - 50) * WeightScale, cell.volatility)
    ELSE 0

\* blResult.portfolioReturn / blResult.portfolioVolatility
BlackLittermanScore(cell) == Quot(cell.quality * WeightScale, cell.volatility)

\* the score a method gives the k-th cell, and whether it scores it at all
ScoreOf(method, cell, params) ==
    CASE method = "risk_parity"     -> RiskParityScore(cell, params[1])
      [] method = "mean_variance"   -> MeanVarianceScore(cell)
      [] method = "black_litterman" -> BlackLittermanScore(cell)

IsScored(method, cell) ==
    /\ ~cell.throws
    /\ CASE method = "risk_parity"     -> cell.converged
         [] method = "mean_variance"   -> TRUE
         [] method = "black_litterman" -> cell.converged

\* the grid loops from cell k on, with the best result and score so far
\* (NoBest is the null bestResult, its score -Infinity)
NoBest == [none |-> TRUE]

RECURSIVE GridSearchFrom(_, _, _, _, _, _, _)
GridSearchFrom(k, method, outer, inner, cells, n, best) ==
    IF k > Len(cells) THEN best
    ELSE LET cell == cells[k]
             params == CellParameters(outer, inner, k)
             score == ScoreOf(method, cell, params)
         IN  IF IsScored(method, cell)
                  /\ ("none" \in DOMAIN best \/ score > best.score)
             THEN GridSearchFrom(k + 1, method, outer, inner, cells, n,
                      [weights |-> CoreWeights(n, cell.tilt),
                       parameters |-> params,
                       score |-> score])
             ELSE GridSearchFrom(k + 1, method, outer, inner, cells, n, best)

\* optimizeRiskParity / optimizeMeanVariance / optimizeBlackLitterman:
\* the preparation (extractReturnsForWindow, calculateCovarianceMatrix) may
\* throw; otherwise the grid search, then `bestResult || getFallbackStrategy()`
optimizeMethod(method, prepThrows, outer, inner, cells, n) ==
    IF prepThrows THEN Raised
    ELSE LET best == GridSearchFrom(1, method, outer, inner, cells, n, NoBest)
         IN  IF "none" \in DOMAIN best THEN getFallbackStrategy(n) ELSE best

Methods == {"risk_parity", "mean_variance", "black_litterman"}

\* optimizeStrategy with its try/catch removed
optimizeStrategyUncaught(method, prepThrows, outer, inner, cells, n) ==
    IF method \in Methods
    THEN optimizeMethod(method, prepThrows, outer, inner, cells, n)
    ELSE Raised

\* optimizeStrategy(method, dataWindow, parameterRanges)
optimizeStrategy(method, prepThrows, outer, inner, cells, n) ==
    LET attempt == IF method \in Methods
                   THEN optimizeMethod(method, prepThrows, outer, inner, cells, n)
                   ELSE Raised      \* throw new Error('Unknown optimization method')
    IN  IF IsRaised(attempt) THEN getFallbackStrategy(n) ELSE attempt


\* the most grid cells and the most symbols tried
MaxCells   == 4
MaxSymbols == 3

\* the default maxIterations range; other ranges are prefixes of it
RangeValues == <<50, 100, 200>>

ParameterRange(len) == SubSeq(RangeValues, 1, len)

CellOutcomes ==
    { [throws |-> TRUE,  converged |-> FALSE, quality |-> 0,   iterations |-> 0,
       volatility |-> 100, tilt |-> 0],
      [throws |-> FALSE, converged |-> FALSE, quality |-> 900, iterations |-> 50,
       volatility |-> 100, tilt |-> 100],
      [throws |-> FALSE, converged |-> TRUE,  quality |-> 900, iterations |-> 25,
       volatility |-> 200, tilt |-> 100],
      [throws |-> FALSE, converged |-> TRUE,  quality |-> 950, iterations |-> 50,
       volatility |-> 100, tilt |-> 200] }

InitOptimizer ==
    /\ IdleAnalyses
    /\ IdlePortfolio
    /\ costModel = TransactionCostModel([fixedCost |-> 0])
    /\ targetWeights = [s \in SymbolSet |-> 500]
    /\ frequency = "monthly"
    /\ threshold = DefaultThreshold
    /\ lastRebalanceDate = NoDate
    /\ IdleEngine
    /\ IdleWalk
    /\ call = NoCall

\* a call of optimizeStrategy on an optimizer for n symbols; mean_variance
\* has a single loop, modelled as an inner range of one value
OptimizeStrategy(method, prepThrows, outerLen, innerLen, cells, n) ==
    /\ call.op = "none"
    /\ Len(cells) = outerLen * innerLen
    /\ method = "mean_variance" => innerLen = 1
    /\ call' = [op |-> "optimizeStrategy", method |-> method,
                prepThrows |-> prepThrows,
                outer |-> ParameterRange(outerLen),
                inner |-> ParameterRange(innerLen),
                cells |-> cells, n |-> n,
                result |-> optimizeStrategy(method, prepThrows,
                              ParameterRange(outerLen), ParameterRange(innerLen),
                              cells, n)]
    /\ UNCHANGED <<portfolioVars, costModel, strategyVars, engineVars, walkVars,
                   analysisVars>>

NextOptimizer ==
    /\ call.op = "none"
    /\ \E method \in Methods \cup {"momentum"}, prepThrows \in BOOLEAN,
          outerLen \in 1..Len(RangeValues), innerLen \in 1..Len(RangeValues),
          n \in 1..MaxSymbols :
           /\ outerLen * innerLen <= MaxCells
           /\ \E cells \in [1..(outerLen * innerLen) -> CellOutcomes] :
                 OptimizeStrategy(method, prepThrows, outerLen, innerLen, cells, n)

SpecOptimizer == InitOptimizer /\ [][NextOptimizer]_vars

\* the cells of the last call that the method scored
ScoredCells ==
    IF call.method \in Methods /\ ~call.prepThrows
    THEN {k \in 1..Len(call.cells) : IsScored(call.method, call.cells[k])}
    ELSE {}

CellScore(k) ==
    ScoreOf(call.method, call.cells[k], CellParameters(call.outer, call.inner, k))

-----------------------------------------------------------------------------
(* Monte Carlo confidence analysis (utils/monte-carlo-confidence.js) *)
(*                                                                         *)
(* A return is kept in 1/ReturnScale (basis points); a total return and a  *)
(* drawdown likewise; a Sharpe ratio, a fraction of trials and a           *)
(* robustness score in 1/WeightScale.                                      *)

ReturnScale == 10000

\* riskFreeRate / 252 = 0.05 / 252, in 1/ReturnScale
DailyRiskFree == 2

\* totalReturn = -1, the mark of a failed scenario
FailedTotalReturn == -ReturnScale

\* returns.reduce((total, r) => total * (1 + r), 1), as a value in 1/ReturnScale
RECURSIVE CompoundFrom(_, _)
CompoundFrom(total, returns) ==
    IF returns = << >> THEN total
    ELSE CompoundFrom(Quot(total * (ReturnScale + Head(returns)), ReturnScale),
                      Tail(returns))

\* PortfolioStrategySimulator.calculateTotalReturn
calculateTotalReturn(returns) == CompoundFrom(ReturnScale, returns) - ReturnScale

\* returns.map(r => r - riskFreeRate / 252)
ExcessReturns(returns) == [i \in 1..Len(returns) |-> returns[i] - DailyRiskFree]

\* PortfolioStrategySimulator.calculateSharpeRatio: the two sqrt(252) cancel
calculateSharpeRatio(returns) ==
    LET excessReturns == ExcessReturns(returns)
        meanExcess == mean(excessReturns)
        stdExcess == standardDeviation(excessReturns)
    IN  IF stdExcess > 0 THEN Quot(meanExcess * WeightScale, stdExcess) ELSE 0

Max(a, b) == IF a > b THEN a ELSE b

\* PortfolioStrategySimulator.calculateMaxDrawdown: the loop from `returns` on
RECURSIVE MaxDrawdownFrom(_, _, _, _)
MaxDrawdownFrom(returns, peak, current, maxDrawdown) ==
    IF returns = << >> THEN maxDrawdown
    ELSE LET now == Quot(current * (ReturnScale + Head(returns)), ReturnScale)
             top == Max(peak, now)
         IN  MaxDrawdownFrom(Tail(returns), top, now,
                 Max(maxDrawdown, Quot((top - now) * ReturnScale, top)))

calculateMaxDrawdown(returns) == MaxDrawdownFrom(returns, ReturnScale, ReturnScale, 0)

\* x put into the ascending xs before the first element with a greater
\* value of `field`: the step of a stable sort
RECURSIVE InsertByField(_, _, _)
InsertByField(x, xs, field) ==
    IF xs = << >> THEN <<x>>
    ELSE IF x[field] < Head(xs)[field] THEN <<x>> \o xs
    ELSE <<Head(xs)>> \o InsertByField(x, Tail(xs), field)

\* [...xs].sort((a, b) => a[field] - b[field]): Array.prototype.sort is stable
RECURSIVE SortByField(_, _)
SortByField(xs, field) ==
    IF xs = << >> THEN << >>
    ELSE InsertByField(xs[Len(xs)],
                       SortByField(SubSeq(xs, 1, Len(xs) - 1), field), field)

RECURSIVE InsertNumber(_, _)
InsertNumber(x, xs) ==
    IF xs = << >> THEN <<x>>
    ELSE IF x < Head(xs) THEN <<x>> \o xs
    ELSE <<Head(xs)>> \o InsertNumber(x, Tail(xs))

\* [...xs].sort((a, b) => a - b)
RECURSIVE SortNumbers(_)
SortNumbers(xs) ==
    IF xs = << >> THEN << >>
    ELSE InsertNumber(xs[Len(xs)], SortNumbers(SubSeq(xs, 1, Len(xs) - 1)))

\* Math.floor(p * n) for p in 1/WeightScale
FloorShare(p, n) == (p * n) \div WeightScale

\* PortfolioStrategySimulator.calculateVaR(returns, 0.95)
calculateVaR(returns) ==
    LET sortedReturns == SortNumbers(returns)
        index == FloorShare(50, Len(sortedReturns))
    IN  -sortedReturns[Max(0, index) + 1]

\* quantile(values, p) of simple-statistics on a non-empty array, p in
\* 1/WeightScale
quantile(values, p) ==
    LET sorted == SortNumbers(values)
        n == Len(sorted)
        idx == (n * p) \div WeightScale
    IN  IF p = WeightScale THEN sorted[n]
        ELSE IF p = 0 THEN sorted[1]
        ELSE IF (n * p) % WeightScale # 0 THEN sorted[idx + 1]   \* x[ceil(idx) - 1]
        ELSE IF n % 2 = 0 THEN Quot(sorted[idx] + sorted[idx + 1], 2)
        ELSE sorted[idx + 1]

\* the scenario simulateStrategy builds from the returns the strategy gave
ScenarioOf(returns) ==
    [returns |-> returns,
     totalReturn |-> calculateTotalReturn(returns),
     volatility |-> standardDeviation(returns),
     sharpeRatio |-> calculateSharpeRatio(returns),
     maxDrawdown |-> calculateMaxDrawdown(returns),
     var95 |-> calculateVaR(returns),
     perturbed |-> FALSE]

\* the scenario of the catch clause: a new SimulationScenario marked failed
FailedScenario ==
    [returns |-> << >>, totalReturn |-> FailedTotalReturn, volatility |-> 0,
     sharpeRatio |-> 0, maxDrawdown |-> 0, var95 |-> 0,
     perturbed |-> FALSE]

\* simulateStrategy(returns, parameters): the strategy function throws,
\* returns no `returns` of its own ("input"), or returns the baseline series
simulateStrategy(returns, behaviour, baseline) ==
    CASE behaviour = "throws"   -> FailedScenario
      [] behaviour = "input"    -> ScenarioOf(returns)
      [] behaviour = "baseline" -> ScenarioOf(baseline)


\* simulations.map(s => s[metric])
MetricValues(sims, metric) == [i \in 1..Len(sims) |-> sims[i][metric]]

Metrics == {"totalReturn", "volatility", "sharpeRatio", "maxDrawdown", "var95"}

\* config.confidenceLevels, in 1/WeightScale
ConfidenceLevels == {900, 950, 990}

\* calculateConfidenceIntervals(simulations): no metric has a NaN value here
calculateConfidenceIntervals(sims) ==
    IF Len(sims) = 0 THEN << >>
    ELSE [metric \in Metrics |->
            [level \in ConfidenceLevels |->
                LET values == MetricValues(sims, metric)
                    lowerPercentile == (WeightScale - level) \div 2
                IN  [lower |-> quantile(values, lowerPercentile),
                     upper |-> quantile(values, WeightScale - lowerPercentile),
                     median |-> quantile(values, 500),
                     mean |-> mean(values)]]]

\* values.filter(v => v >= baseline * robustnessThreshold).length
RECURSIVE CountAbove(_, _, _)
CountAbove(values, baseline, limit) ==
    IF values = << >> THEN 0
    ELSE (IF Head(values) * WeightScale >= baseline * limit THEN 1 ELSE 0)
            + CountAbove(Tail(values), baseline, limit)

RECURSIVE MinSeq(_)
MinSeq(xs) == IF Len(xs) = 1 THEN xs[1] ELSE Min(Head(xs), MinSeq(Tail(xs)))

RECURSIVE MaxSeq(_)
MaxSeq(xs) == IF Len(xs) = 1 THEN xs[1] ELSE Max(Head(xs), MaxSeq(Tail(xs)))

IsPerturbed(s) == s.perturbed

IsBaseCase(s) == ~s.perturbed

\* the parameterSensitivity entry, absent unless both kinds of trial occur
ParameterSensitivity(sims) ==
    LET perturbedReturns == MetricValues(SelectSeq(sims, IsPerturbed), "totalReturn")
        baseCaseReturns == MetricValues(SelectSeq(sims, IsBaseCase), "totalReturn")
    IN  IF Len(perturbedReturns) > 0 /\ Len(baseCaseReturns) > 0
        THEN [perturbedMean |-> mean(perturbedReturns),
              baseCaseMean |-> mean(baseCaseReturns),
              sensitivityRatio |->
                  IF mean(baseCaseReturns) = 0 THEN NaN
                  ELSE Quot(mean(perturbedReturns) * WeightScale,
                            mean(baseCaseReturns))]
        ELSE [absent |-> TRUE]

\* calculateRobustnessMetrics(simulations), on at least one simulation
calculateRobustnessMetrics(sims, baseline, limit) ==
    LET returns == MetricValues(sims, "totalReturn")
        sharpeRatios == MetricValues(sims, "sharpeRatio")
    IN  [returnRobustness |->
            [percentileAboveThreshold |->
                 Fraction(CountAbove(returns, baseline.totalReturn, limit),
                          Len(returns)),
             percentilePositive |-> Fraction(CountPositive(returns), Len(returns)),
             worstCase |-> MinSeq(returns),
             bestCase |-> MaxSeq(returns),
             downside95 |-> quantile(returns, 50)],
         sharpeRobustness |->
            [percentileAboveThreshold |->
                 Fraction(CountAbove(sharpeRatios, baseline.sharpeRatio, limit),
                          Len(sharpeRatios)),
             percentilePositive |->
                 Fraction(CountPositive(sharpeRatios), Len(sharpeRatios)),
             worstCase |-> MinSeq(sharpeRatios),
             bestCase |-> MaxSeq(sharpeRatios)],
         parameterSensitivity |-> ParameterSensitivity(sims)]

\* sum of ((x - mean) / std)^power, the quotient kept in tenths
RECURSIVE SumPowers(_, _, _, _)
SumPowers(values, meanVal, stdVal, power) ==
    IF values = << >> THEN 0
    ELSE LET z == Quot((Head(values) - meanVal) * 10, stdVal)
         IN  (IF power = 3 THEN z * z * z ELSE z * z * z * z)
                + SumPowers(Tail(values), meanVal, stdVal, power)

\* calculateSkewness(values), in 1/1000
calculateSkewness(values) ==
    IF standardDeviation(values) = 0 THEN 0
    ELSE Quot(SumPowers(values, mean(values), standardDeviation(values), 3),
              Len(values))

\* calculateKurtosis(values), in 1/10000
calculateKurtosis(values) ==
    IF standardDeviation(values) = 0 THEN 0
    ELSE Quot(SumPowers(values, mean(values), standardDeviation(values), 4),
              Len(values)) - 3 * 10000

\* calculateDistributionStats(simulations), on at least one simulation
calculateDistributionStats(sims) ==
    LET returns == MetricValues(sims, "totalReturn")
        sharpeRatios == MetricValues(sims, "sharpeRatio")
    IN  [returns |-> [mean |-> mean(returns),
                      median |-> quantile(returns, 500),
                      std |-> standardDeviation(returns),
                      skewness |-> calculateSkewness(returns),
                      kurtosis |-> calculateKurtosis(returns),
                      min |-> MinSeq(returns),
                      max |-> MaxSeq(returns)],
         sharpeRatios |-> [mean |-> mean(sharpeRatios),
                           median |-> quantile(sharpeRatios, 500),
                           std |-> standardDeviation(sharpeRatios),
                           skewness |-> calculateSkewness(sharpeRatios),
                           kurtosis |-> calculateKurtosis(sharpeRatios)]]

\* performScenarioAnalysis(simulations), on at least one simulation
performScenarioAnalysis(sims) ==
    LET sortedByReturn == SortByField(sims, "totalReturn")
        sortedBySharpe == SortByField(sims, "sharpeRatio")
        n == Len(sims)
    IN  [worstCase |-> [return |-> sortedByReturn[1], sharpe |-> sortedBySharpe[1]],
         bestCase |-> [return |-> sortedByReturn[n], sharpe |-> sortedBySharpe[n]],
         percentiles |->
            [p5 |-> sortedByReturn[FloorShare(50, n) + 1],
             p25 |-> sortedByReturn[FloorShare(250, n) + 1],
             p75 |-> sortedByReturn[FloorShare(750, n) + 1],
             p95 |-> sortedByReturn[FloorShare(950, n) + 1]]]

\* the score without the share of the positive-return rate
calculateOverallRobustnessScoreNoPositiveRate(robustnessMetrics) ==
    Quot(400 * robustnessMetrics.returnRobustness.percentileAboveThreshold
           + 400 * robustnessMetrics.sharpeRobustness.percentileAboveThreshold,
         WeightScale)

\* calculateOverallRobustnessScore(robustnessMetrics):
\* 0.4 * returnRobustness + 0.4 * sharpeRobustness + 0.2 * positiveReturnRate
calculateOverallRobustnessScore(robustnessMetrics) ==
    Quot(400 * robustnessMetrics.returnRobustness.percentileAboveThreshold
           + 400 * robustnessMetrics.sharpeRobustness.percentileAboveThreshold
           + 200 * robustnessMetrics.returnRobustness.percentilePositive,
         WeightScale)

\* simulations.filter(s => s.totalReturn !== -1)
NotMarkedFailed(s) == s.totalReturn # FailedTotalReturn

\* runConfidenceAnalysis after the simulations: quantile() throws on an empty
\* array, so no scenario left means the call throws
AnalyseSimulations(sims, baseline, limit) ==
    IF Len(sims) = 0 THEN Raised
    ELSE LET robustnessMetrics == calculateRobustnessMetrics(sims, baseline, limit)
             score == calculateOverallRobustnessScore(robustnessMetrics)
         IN  [simulations |-> sims,
              confidenceIntervals |-> calculateConfidenceIntervals(sims),
              robustnessMetrics |-> robustnessMetrics,
              distributionStats |-> calculateDistributionStats(sims),
              scenarioAnalysis |-> performScenarioAnalysis(sims),
              robustnessScore |-> score,
              isRobust |-> score >= limit]


-----------------------------------------------------------------------------
(* BlockBootstrapSampler *)

\* originalReturns.slice(startIndex, Math.min(startIndex + blockLength, length))
BlockAt(series, blockLength, startIndex) ==
    SubSeq(series, startIndex + 1, Min(startIndex + blockLength, Len(series)))

\* Math.max(0, originalReturns.length - blockLength)
MaxStartIndex(series, blockLength) == Max(0, Len(series) - blockLength)

\* the while loop of generateSample from `sample` on, for every outcome of
\* Math.random(): the concatenations reached and the start indices drawn
RECURSIVE ConcatenationsFrom(_, _, _, _, _)
ConcatenationsFrom(series, blockLength, targetLength, sample, starts) ==
    IF ~(Len(sample) < targetLength)
    THEN {[sample |-> sample, starts |-> starts]}
    ELSE UNION { ConcatenationsFrom(series, blockLength, targetLength,
                     sample \o BlockAt(series, blockLength, startIndex),
                     Append(starts, startIndex)) :
                 startIndex \in 0..MaxStartIndex(series, blockLength) }

\* generateSample without the final slice(0, targetLength)
generateSampleUntruncated(series, blockLength, targetLength) ==
    ConcatenationsFrom(series, blockLength, targetLength, << >>, << >>)

\* generateSample(targetLength): every sample it can return, with the start
\* indices drawn for it
generateSample(series, blockLength, targetLength) ==
    { [sample |-> SubSeq(c.sample, 1, targetLength), starts |-> c.starts] :
        c \in ConcatenationsFrom(series, blockLength, targetLength, << >>, << >>) }

\* the longest series, block and sample tried
MaxSeries == 3
MaxBlock  == 4
MaxSample == 4

\* three returns that differ, in 1/ReturnScale
ReturnValues == {-5000, 0, 5000}

SeriesUpTo(n) == UNION { [1..len -> ReturnValues] : len \in 1..n }

InitBootstrap ==
    /\ IdleRun /\ IdleCache /\ IdleComparison /\ IdleClient
    /\ IdlePortfolio
    /\ costModel = TransactionCostModel([fixedCost |-> 0])
    /\ targetWeights = [s \in SymbolSet |-> 500]
    /\ frequency = "monthly"
    /\ threshold = DefaultThreshold
    /\ lastRebalanceDate = NoDate
    /\ IdleEngine
    /\ IdleWalk
    \* new BlockBootstrapSampler(originalReturns, blockLength)
    /\ baselineReturns \in SeriesUpTo(MaxSeries)
    /\ \E blockLength \in 1..MaxBlock :
          mcConfig = [numSimulations |-> 0, robustnessThreshold |-> 0,
                      blockBootstrapLength |-> blockLength]
    /\ baselineMetrics = [set |-> FALSE]
    /\ simulations = << >>
    /\ call = NoCall

\* a call of generateSample(targetLength)
GenerateSample(targetLength) ==
    /\ call.op = "none"
    /\ \E drawn \in generateSample(baselineReturns, mcConfig.blockBootstrapLength,
                                   targetLength) :
          call' = [op |-> "generateSample", targetLength |-> targetLength,
                   sample |-> drawn.sample, starts |-> drawn.starts]
    /\ UNCHANGED <<portfolioVars, costModel, strategyVars, engineVars, walkVars,
                   analysisVars>>

NextBootstrap == \E targetLength \in 0..MaxSample : GenerateSample(targetLength)

SpecBootstrap == InitBootstrap /\ [][NextBootstrap]_vars

\* the length every block has: blockLength, or the whole series if shorter
EffectiveBlock == Min(mcConfig.blockBootstrapLength, Len(baselineReturns))

\* C17: generateSample(n) returns exactly n values, the concatenation of
\* contiguous blocks of the original series with the last one truncated; a
\* block as long as the series or longer is the whole series in its order,
\* and a block of length 1 is one observation of the series.
C17_SampleIsBlocks ==
    call.op = "generateSample" =>
        /\ Len(call.sample) = call.targetLength
        /\ \A k \in 1..Len(call.starts) :
              call.starts[k] \in 0..(Len(baselineReturns) - EffectiveBlock)
        /\ \A i \in 1..call.targetLength :
              /\ ((i - 1) \div EffectiveBlock) + 1 \in 1..Len(call.starts)
              /\ call.sample[i]
                    = baselineReturns[call.starts[((i - 1) \div EffectiveBlock) + 1]
                                         + ((i - 1) % EffectiveBlock) + 1]
        /\ mcConfig.blockBootstrapLength >= Len(baselineReturns) =>
              \A i \in 1..call.targetLength :
                  call.sample[i]
                     = baselineReturns[((i - 1) % Len(baselineReturns)) + 1]
        /\ mcConfig.blockBootstrapLength = 1 =>
              /\ Len(call.starts) = call.targetLength
              /\ \A i \in 1..call.targetLength :
                    call.sample[i] = baselineReturns[call.starts[i] + 1]

\* C17 witness: four single observations drawn out of the order of the
\* series, one of them twice; or the whole series followed by its truncation
C17_Witness ==
    /\ call.op = "generateSample"
    /\ call.targetLength = 4
    /\ baselineReturns = <<-5000, 0, 5000>>
    /\ \/ /\ mcConfig.blockBootstrapLength = 1
          /\ call.sample = <<5000, 5000, -5000, 0>>
       \/ /\ mcConfig.blockBootstrapLength = 4
          /\ call.sample = <<-5000, 0, 5000, -5000>>

-----------------------------------------------------------------------------
(* MonteCarloConfidenceEngine *)

\* the most trials of a run
MaxSimulations == 2

\* config.robustnessThreshold || 0.5
DefaultRobustnessThreshold == 500

\* config.blockBootstrapLength || 22
DefaultBlockLength == 22

\* baseline return series: a loss, a gain, a total loss, one gain, one flat day
BaselineChoices ==
    { <<5000, -5000>>, <<5000, 0>>, <<-10000, 5000>>, <<5000>>, <<0>> }

\* what the caller's strategy function does on one call
Behaviours == {"throws", "input", "baseline"}

InitMonteCarlo ==
    /\ IdleRun /\ IdleCache /\ IdleComparison /\ IdleClient
    /\ IdlePortfolio
    /\ costModel = TransactionCostModel([fixedCost |-> 0])
    /\ targetWeights = [s \in SymbolSet |-> 500]
    /\ frequency = "monthly"
    /\ threshold = DefaultThreshold
    /\ lastRebalanceDate = NoDate
    /\ IdleEngine
    /\ IdleWalk
    /\ mcConfig \in [numSimulations : 1..MaxSimulations,
                     robustnessThreshold : {DefaultRobustnessThreshold},
                     blockBootstrapLength : {1, DefaultBlockLength}]
    /\ baselineReturns = << >>
    /\ baselineMetrics = [set |-> FALSE]
    /\ simulations = << >>
    /\ call = NoCall

\* initialize(baselineReturns, strategyFunction, baseParameters)
InitializeMonteCarlo ==
    /\ call.op = "none"
    /\ baselineReturns' \in BaselineChoices
    /\ baselineMetrics' = [set |-> FALSE]
    /\ call' = [op |-> "initialize"]
    /\ UNCHANGED <<portfolioVars, costModel, strategyVars, engineVars, walkVars,
                   runVars, cacheVars, comparison, clientVars, mcConfig, simulations>>

\* runConfidenceAnalysis() on an engine without a simulator
RunConfidenceAnalysisUninitialized ==
    /\ call.op = "none"
    /\ call' = [op |-> "runConfidenceAnalysis", behaviours |-> << >>,
                baselineBehaviour |-> "none", result |-> Raised]
    /\ UNCHANGED <<portfolioVars, costModel, strategyVars, engineVars, walkVars,
                   analysisVars>>

\* runConfidenceAnalysis() up to the loop of runMonteCarloSimulations: the
\* baseline metrics
StartConfidenceAnalysis ==
    /\ call.op = "initialize"
    /\ \E behaviour \in Behaviours :
          /\ baselineMetrics' =
                simulateStrategy(baselineReturns, behaviour, baselineReturns)
          /\ call' = [op |-> "simulating", behaviours |-> << >>,
                      baselineBehaviour |-> behaviour]
    /\ simulations' = << >>
    /\ UNCHANGED <<portfolioVars, costModel, strategyVars, engineVars, walkVars,
                   runVars, cacheVars, comparison, clientVars, mcConfig, baselineReturns>>

\* one turn of the loop of runMonteCarloSimulations: a bootstrap sample, the
\* parameters perturbed or not, the strategy run on them
SimulateTrial ==
    /\ call.op = "simulating"
    /\ Len(simulations) < mcConfig.numSimulations
    /\ \E drawn \in generateSample(baselineReturns, mcConfig.blockBootstrapLength,
                                   Len(baselineReturns)),
          perturbed \in BOOLEAN, behaviour \in Behaviours :
          /\ simulations' =
                Append(simulations,
                       [simulateStrategy(drawn.sample, behaviour, baselineReturns)
                           EXCEPT !.perturbed = perturbed])
          /\ call' = [call EXCEPT !.behaviours = Append(@, behaviour)]
    /\ UNCHANGED <<portfolioVars, costModel, strategyVars, engineVars, walkVars,
                   runVars, cacheVars, comparison, clientVars, mcConfig, baselineReturns,
                   baselineMetrics>>

\* the end of runMonteCarloSimulations (the filter) and the rest of
\* runConfidenceAnalysis
FinishConfidenceAnalysis ==
    /\ call.op = "simulating"
    /\ Len(simulations) = mcConfig.numSimulations
    /\ call' = [op |-> "runConfidenceAnalysis",
                behaviours |-> call.behaviours,
                baselineBehaviour |-> call.baselineBehaviour,
                result |-> AnalyseSimulations(
                               SelectSeq(simulations, NotMarkedFailed),
                               baselineMetrics, mcConfig.robustnessThreshold)]
    /\ UNCHANGED <<portfolioVars, costModel, strategyVars, engineVars, walkVars,
                   analysisVars>>

NextMonteCarlo ==
    \/ InitializeMonteCarlo
    \/ RunConfidenceAnalysisUninitialized
    \/ StartConfidenceAnalysis
    \/ SimulateTrial
    \/ FinishConfidenceAnalysis

SpecMonteCarlo == InitMonteCarlo /\ [][NextMonteCarlo]_vars


\* runConfidenceAnalysis was run on an initialized engine and is over
AnalysisOver == call.op = "runConfidenceAnalysis" /\ call.baselineBehaviour # "none"

\* the trials in which the strategy function did not throw
SucceededTrials == {i \in 1..Len(call.behaviours) : call.behaviours[i] # "throws"}

\* C13: when the strategy function throws in some trials the run is not
\* aborted: all numSimulations trials are attempted, a result is returned
\* whenever at least one trial succeeded, and every scenario that is counted
\* is the scenario of a trial that did not throw.
C13_FailedTrialsExcluded ==
    (AnalysisOver /\ \E i \in 1..Len(call.behaviours) : call.behaviours[i] = "throws")
      => /\ Len(call.behaviours) = mcConfig.numSimulations
         /\ SucceededTrials # {} => ~IsRaised(call.result)
         /\ ~IsRaised(call.result) =>
               /\ Len(call.result.simulations) <= Cardinality(SucceededTrials)
               /\ \A j \in 1..Len(call.result.simulations) :
                     \E i \in SucceededTrials :
                         simulations[i] = call.result.simulations[j]

\* the strategy function returned the baseline series, unchanged, on the
\* baseline call and in every trial
BaselineUnchanged ==
    /\ AnalysisOver
    /\ call.baselineBehaviour # "throws"
    /\ \A i \in 1..Len(simulations) : simulations[i].returns = baselineReturns

\* C14 as stated: a strategy that returns the baseline unchanged in every
\* trial gets robustnessScore 1.0 and isRobust with threshold 0.5, whatever
\* the baseline series.
C14_UnchangedBaselineScoresOne ==
    (BaselineUnchanged /\ mcConfig.robustnessThreshold = 500)
      => /\ ~IsRaised(call.result)
         /\ call.result.robustnessScore = WeightScale
         /\ call.result.isRobust

\* C14 amended: the same for a baseline series whose total return is positive
\* and whose Sharpe ratio is not negative.
C14_ProfitableBaselineScoresOne ==
    (BaselineUnchanged /\ mcConfig.robustnessThreshold = 500
       /\ baselineMetrics.totalReturn > 0 /\ baselineMetrics.sharpeRatio >= 0)
      => /\ ~IsRaised(call.result)
         /\ call.result.robustnessScore = WeightScale
         /\ call.result.isRobust

\* C14 witness: two trials returning the baseline <<+50%, 0%>> scored 1.0
C14_Witness ==
    /\ BaselineUnchanged
    /\ baselineReturns = <<5000, 0>>
    /\ Len(simulations) = 2
    /\ baselineMetrics.totalReturn = 5000
    /\ ~IsRaised(call.result)
    /\ call.result.robustnessScore = WeightScale
    /\ call.result.isRobust

\* the scenarios in the order perm
Permuted(sims, perm) == [i \in 1..Len(sims) |-> sims[perm[i]]]

\* the statistics of a result, without the list of scenarios itself
StatisticsOf(result) ==
    [confidenceIntervals |-> result.confidenceIntervals,
     robustnessMetrics |-> result.robustnessMetrics,
     robustnessScore |-> result.robustnessScore,
     isRobust |-> result.isRobust,
     scenarioAnalysis |-> result.scenarioAnalysis]

\* C15: the statistics do not depend on the order of the trials: every
\* permutation of the scenarios gives the same confidence intervals,
\* robustness metrics, robustnessScore, isRobust and scenario analysis.
C15_TrialOrderIrrelevant ==
    (AnalysisOver /\ ~IsRaised(call.result)) =>
        \A perm \in Permutations(1..Len(call.result.simulations)) :
            StatisticsOf(AnalyseSimulations(
                             Permuted(call.result.simulations, perm),
                             baselineMetrics, mcConfig.robustnessThreshold))
              = StatisticsOf(call.result)


-----------------------------------------------------------------------------
(* StrategyComparisonFramework *)
(*                                                                         *)
(* `comparison` holds results.strategies in the order of the loop: per     *)
(* strategy the calls made on the engines (steps) and whether the strategy *)
(* ended in the catch clause (error).                                      *)

\* Object.entries(this.strategies), in insertion order
StrategyNames == <<"meanVariance", "blackLitterman", "riskParity", "equalWeight">>

\* a BacktestingEngine after its constructor
NewBacktestingEngine == [portfolioState |-> "null", rebalancingStrategy |-> "null"]

\* the guard of BacktestingEngine.runBacktest
runBacktestGuard(engine) ==
    IF engine.portfolioState = "null" \/ engine.rebalancingStrategy = "null"
    THEN Raised        \* 'Backtest not properly initialized'
    ELSE [report |-> TRUE]

\* a WalkForwardAnalysis after its constructor: no data, no optimizer
NewWalkForwardAnalysis == [numDates |-> 0, optimizer |-> "null"]

\* runWalkForwardAnalysis() on it: without dates there are no windows
runWalkForwardGuard(analysis) ==
    IF Len(generateTimeWindows(DefaultWalk, analysis.numDates)) = 0
    THEN Raised        \* 'Insufficient data for walk-forward analysis'
    ELSE [periods |-> TRUE]

\* a MonteCarloConfidenceEngine after its constructor
NewMonteCarloEngine == [simulator |-> "null"]

\* the guard of runConfidenceAnalysis
runConfidenceGuard(engine) ==
    IF engine.simulator = "null"
    THEN Raised        \* 'Monte Carlo engine not initialized'
    ELSE [robustnessScore |-> 0]

\* runSingleStrategy inside the try of runFullComparison: the calls it makes
\* up to the first that throws; metrics are what the risk and performance
\* calculations give when all calls return
runSingleStrategy(name, optimizeThrows, metrics) ==
    IF optimizeThrows
    THEN [name |-> name, error |-> TRUE, steps |-> <<"optimize">>]
    ELSE IF IsRaised(runBacktestGuard(NewBacktestingEngine))
    THEN [name |-> name, error |-> TRUE,
          steps |-> <<"optimize", "BacktestingEngine.runBacktest">>]
    ELSE IF IsRaised(runWalkForwardGuard(NewWalkForwardAnalysis))
    THEN [name |-> name, error |-> TRUE,
          steps |-> <<"optimize", "BacktestingEngine.runBacktest",
                      "WalkForwardAnalysis.runWalkForwardAnalysis">>]
    ELSE IF IsRaised(runConfidenceGuard(NewMonteCarloEngine))
    THEN [name |-> name, error |-> TRUE,
          steps |-> <<"optimize", "BacktestingEngine.runBacktest",
                      "WalkForwardAnalysis.runWalkForwardAnalysis",
                      "MonteCarloConfidenceEngine.runConfidenceAnalysis">>]
    ELSE [name |-> name, error |-> FALSE,
          steps |-> <<"optimize", "BacktestingEngine.runBacktest",
                      "WalkForwardAnalysis.runWalkForwardAnalysis",
                      "MonteCarloConfidenceEngine.runConfidenceAnalysis">>,
          sharpeRatio |-> metrics.sharpeRatio, totalReturn |-> metrics.totalReturn,
          maxDrawdown |-> Abs(metrics.maxDrawdown),
          volatility |-> metrics.volatility, robustness |-> metrics.robustness]

IsValidStrategy(data) == ~data.error

\* x put into the descending xs before the first element with a smaller
\* value of `field`
RECURSIVE InsertByFieldDescending(_, _, _)
InsertByFieldDescending(x, xs, field) ==
    IF xs = << >> THEN <<x>>
    ELSE IF x[field] > Head(xs)[field] THEN <<x>> \o xs
    ELSE <<Head(xs)>> \o InsertByFieldDescending(x, Tail(xs), field)

\* [...xs].sort((a, b) => b[field] - a[field])
RECURSIVE SortByFieldDescending(_, _)
SortByFieldDescending(xs, field) ==
    IF xs = << >> THEN << >>
    ELSE InsertByFieldDescending(xs[Len(xs)],
             SortByFieldDescending(SubSeq(xs, 1, Len(xs) - 1), field), field)

\* ranking.findIndex(s => s.name === name), 0-based
FindIndex(ranking, name) ==
    (CHOOSE i \in 1..Len(ranking) :
        /\ ranking[i].name = name
        /\ \A j \in 1..(i - 1) : ranking[j].name # name) - 1

\* calculateStrategyRankings(strategies); a score is in 1/100
calculateStrategyRankings(strategies) ==
    LET strategyMetrics == SelectSeq(strategies, IsValidStrategy)
        numStrategies == Len(strategyMetrics)
        bySharpe == SortByFieldDescending(strategyMetrics, "sharpeRatio")
        byReturn == SortByFieldDescending(strategyMetrics, "totalReturn")
        byDrawdown == SortByField(strategyMetrics, "maxDrawdown")
        byVolatility == SortByField(strategyMetrics, "volatility")
        byRobustness == SortByFieldDescending(strategyMetrics, "robustness")
        ScoreOfStrategy(name) ==
            30 * (numStrategies - FindIndex(bySharpe, name))
              + 25 * (numStrategies - FindIndex(byReturn, name))
              + 20 * (FindIndex(byDrawdown, name) + 1)
              + 15 * (FindIndex(byVolatility, name) + 1)
              + 10 * (numStrategies - FindIndex(byRobustness, name))
    IN  IF numStrategies = 0
        THEN [error |-> "No valid strategies to rank"]
        ELSE [sharpeRatio |-> bySharpe, totalReturn |-> byReturn,
              maxDrawdown |-> byDrawdown, volatility |-> byVolatility,
              robustness |-> byRobustness,
              overall |->
                 SortByFieldDescending(
                     [i \in 1..numStrategies |->
                         [name |-> strategyMetrics[i].name,
                          score |-> ScoreOfStrategy(strategyMetrics[i].name)]],
                     "score")]

NoBestStrategy == [null |-> TRUE]

\* generateComparisonSummary(results): the bestStrategy entry
generateComparisonSummary(rankings) ==
    [bestStrategy |->
        IF "overall" \in DOMAIN rankings /\ Len(rankings.overall) > 0
        THEN [name |-> rankings.overall[1].name, score |-> rankings.overall[1].score]
        ELSE NoBestStrategy]

\* what the risk and performance calculations may give, in 1/WeightScale
MetricChoices ==
    { [sharpeRatio |-> 800, totalReturn |-> 100, maxDrawdown |-> -150,
       volatility |-> 200, robustness |-> 900],
      [sharpeRatio |-> 300, totalReturn |-> 120, maxDrawdown |-> -50,
       volatility |-> 100, robustness |-> 600] }

InitComparison ==
    /\ IdleRun /\ IdleMonteCarlo /\ IdleCache /\ IdleComparison /\ IdleClient
    /\ IdlePortfolio
    /\ costModel = TransactionCostModel([fixedCost |-> 0])
    /\ targetWeights = [s \in SymbolSet |-> 500]
    /\ frequency = "quarterly"
    /\ threshold = DefaultThreshold
    /\ lastRebalanceDate = NoDate
    \* priceData
    /\ historicalData \in [SymbolSet -> UNION {HistoriesOf(s) : s \in SymbolSet}]
    /\ \A s \in SymbolSet : historicalData[s] \in HistoriesOf(s)
    /\ pending = << >>
    /\ pc = "idle"
    /\ events = << >>
    /\ IdleWalk
    /\ call = NoCall

\* one turn of the loop of runFullComparison: runSingleStrategy in its try;
\* equalWeightStrategy cannot throw
RunSingleStrategy ==
    /\ call.op = "none"
    /\ Len(comparison) < Len(StrategyNames)
    /\ LET name == StrategyNames[Len(comparison) + 1]
       IN  \E optimizeThrows \in BOOLEAN, metrics \in MetricChoices :
              /\ name = "equalWeight" => ~optimizeThrows
              /\ comparison' =
                    Append(comparison, runSingleStrategy(name, optimizeThrows, metrics))
    /\ UNCHANGED <<portfolioVars, costModel, strategyVars, engineVars, walkVars,
                   runVars, monteCarloVars, cacheVars, clientVars, call>>

\* after the loop: rankings and summary, and the returned results
FinishComparison ==
    /\ call.op = "none"
    /\ Len(comparison) = Len(StrategyNames)
    /\ LET rankings == calculateStrategyRankings(comparison)
       IN  call' = [op |-> "runFullComparison",
                    result |-> [strategies |-> comparison,
                                rankings |-> rankings,
                                summary |-> generateComparisonSummary(rankings)]]
    /\ UNCHANGED <<portfolioVars, costModel, strategyVars, engineVars, walkVars,
                   analysisVars>>

NextComparison ==
    \/ RunSingleStrategy
    \/ FinishComparison

SpecComparison == InitComparison /\ [][NextComparison]_vars

\* in steps, a call of run exists and a call of init comes before it
InitializedThenRun(steps, init, run) ==
    \E j \in 1..Len(steps) :
        /\ steps[j] = run
        /\ \E i \in 1..(j - 1) : steps[i] = init

\* C16: runFullComparison runs, for every strategy, the backtest, the
\* walk-forward analysis and the Monte Carlo analysis, each engine being
\* initialized before it is run; when the weight optimization of at least
\* one strategy succeeds the result has an overall ranking and names the
\* top-ranked strategy in summary.bestStrategy.
C16_AllEnginesRunAndBestNamed ==
    call.op = "runFullComparison" =>
        /\ \A k \in 1..Len(comparison) :
              comparison[k].steps[Len(comparison[k].steps)] # "optimize" =>
                  /\ InitializedThenRun(comparison[k].steps,
                         "BacktestingEngine.initialize",
                         "BacktestingEngine.runBacktest")
                  /\ InitializedThenRun(comparison[k].steps,
                         "WalkForwardAnalysis.initialize",
                         "WalkForwardAnalysis.runWalkForwardAnalysis")
                  /\ InitializedThenRun(comparison[k].steps,
                         "MonteCarloConfidenceEngine.initialize",
                         "MonteCarloConfidenceEngine.runConfidenceAnalysis")
        /\ (\E k \in 1..Len(comparison) :
                comparison[k].steps[Len(comparison[k].steps)] # "optimize")
             => /\ "overall" \in DOMAIN call.result.rankings
                /\ call.result.summary.bestStrategy # NoBestStrategy


-----------------------------------------------------------------------------
(* Trades below minTradeSize and trades that cannot be funded *)

\* the trade is below the cost model's minimum trade size
BelowMinTradeSize(t) == NLt(NAbs(t.tradeValue), costModel.minTradeSize)

\* executeTrade left cash, every position and the transaction log alone
LeftUnchanged(t) ==
    /\ t.cashAfter = t.cashBefore
    /\ t.positionsAfter = t.positionsBefore
    /\ t.logAfter = t.logBefore

\* C18: a trade whose absolute trade value is below minTradeSize costs zero
\* and is skipped: the rebalance leaves cash, the position's shares and the
\* transaction log as they were.
C18_SmallTradeSkipped ==
    call.op = "handleRebalance" =>
        \A i \in 1..Len(call.trades) :
            BelowMinTradeSize(call.trades[i]) =>
                /\ calculateTradeCost(costModel, call.trades[i].tradeValue,
                                      DefaultDailyVolume) = SkippedCost
                /\ NumEq(call.trades[i].cashAfter, call.trades[i].cashBefore)
                /\ call.trades[i].positionsAfter[call.trades[i].symbol].shares
                      = call.trades[i].sharesBefore
                /\ call.trades[i].logAfter = call.trades[i].logBefore

InsufficientFunds(t) == ~t.result.executed /\ t.result.reason = "insufficient_funds"

\* the symbols priced on a date
PricedSymbols(date) ==
    {s \in SymbolSet : HasPrice(getPriceDataForDate(historicalData, date), s)}

\* C19: an executeTrade that returns insufficient_funds leaves cash, every
\* position and the transaction log as before the call, and the backtest goes
\* on: every priced symbol of that rebalance gets its executeTrade call and
\* every date of the history is simulated before the report.
C19_InsufficientFundsNonFatal ==
    /\ call.op = "handleRebalance" =>
          /\ \A i \in 1..Len(call.trades) :
                InsufficientFunds(call.trades[i]) => LeftUnchanged(call.trades[i])
          /\ Len(call.trades) = Cardinality(PricedSymbols(call.date))
    /\ pc = "done" => Len(history) = Len(getAllTradingDates(historicalData))

\* C19 witness: the trade of the first symbol was refused for insufficient
\* funds, the second symbol was still traded, and dates remain to simulate
C19_Witness ==
    /\ call.op = "handleRebalance"
    /\ pending # << >>
    /\ Len(call.trades) = 2
    /\ InsufficientFunds(call.trades[1])
    /\ call.trades[2].result.executed


-----------------------------------------------------------------------------
(* DataCache: the in-memory cache with TTL and LRU eviction.  The variable
   cache is the Map in insertion order, one record per key; the field expires
   is the key's entry in the ttls Map, which always has the same keys.  clock
   is Date.now(), read once per call.  The hit and miss statistics are left
   out: no operation reads them. *)

maxEntries == 2
NumKeys    == 3
MaxClock   == 2
Keys       == 1..NumKeys
TTLs       == {1, MaxClock + 1}

RECURSIVE IndexOfKey(_, _, _)
\* position of key in the Map, 0 when absent
IndexOfKey(c, key, i) ==
    IF i > Len(c) THEN 0
    ELSE IF c[i].key = key THEN i
    ELSE IndexOfKey(c, key, i + 1)

CacheHas(c, key) == IndexOfKey(c, key, 1) # 0

\* delete(key)
CacheDelete(c, key) == SelectSeq(c, LAMBDA e : e.key # key)

RECURSIVE LruFrom(_, _, _, _)
\* the loop of evictLRU: lruKey (0 for null) after the entries from i on
LruFrom(c, i, lruTime, lruKey) ==
    IF i > Len(c) THEN lruKey
    ELSE IF c[i].lastAccessed < lruTime
         THEN LruFrom(c, i + 1, c[i].lastAccessed, c[i].key)
         ELSE LruFrom(c, i + 1, lruTime, lruKey)

\* evictLRU(): lruTime starts at Date.now() and only a strictly older entry
\* replaces it
evictLRU(c, now) ==
    LET lruKey == LruFrom(c, 1, now, 0)
    IN  IF lruKey # 0 THEN CacheDelete(c, lruKey) ELSE c

\* Map.set: an existing key keeps its place, a new key goes last
MapSet(c, entry) ==
    LET i == IndexOfKey(c, entry.key, 1)
    IN  IF i = 0 THEN Append(c, entry) ELSE [c EXCEPT ![i] = entry]

\* set(key, value, ttl)
CacheSet(c, key, ttl, now) ==
    LET room == IF Len(c) >= maxEntries /\ ~CacheHas(c, key)
                THEN evictLRU(c, now) ELSE c
    IN  MapSet(room, [key |-> key, lastAccessed |-> now, createdAt |-> now,
                      expires |-> now + ttl])

\* get(key): [cache, hit]
CacheGet(c, key, now) ==
    LET i == IndexOfKey(c, key, 1)
    IN  IF i = 0 THEN [cache |-> c, hit |-> FALSE]
        ELSE IF now > c[i].expires
             THEN [cache |-> CacheDelete(c, key), hit |-> FALSE]
             ELSE [cache |-> [c EXCEPT ![i].lastAccessed = now], hit |-> TRUE]

\* cleanup(): [cache, cleaned]
CacheCleanup(c, now) ==
    LET kept == SelectSeq(c, LAMBDA e : ~(now > e.expires))
    IN  [cache |-> kept, cleaned |-> Len(c) - Len(kept)]

cacheFrame == <<portfolioVars, costModel, strategyVars, engineVars, walkVars,
                runVars, monteCarloVars, comparison, clientVars>>

InitCache ==
    /\ IdleRun /\ IdleMonteCarlo /\ IdleCache /\ IdleComparison /\ IdleClient
    /\ IdlePortfolio
    /\ costModel = TransactionCostModel([fixedCost |-> 0])
    /\ targetWeights = [s \in SymbolSet |-> 500]
    /\ frequency = "monthly"
    /\ threshold = DefaultThreshold
    /\ lastRebalanceDate = NoDate
    /\ IdleEngine
    /\ IdleWalk
    /\ call = NoCall

Set(key, ttl) ==
    /\ cache' = CacheSet(cache, key, ttl, clock)
    /\ call' = [op |-> "set", key |-> key, sizeBefore |-> Len(cache)]
    /\ UNCHANGED <<clock, cacheFrame>>

Get(key) ==
    /\ cache' = CacheGet(cache, key, clock).cache
    /\ call' = [op |-> "get", key |-> key, hit |-> CacheGet(cache, key, clock).hit]
    /\ UNCHANGED <<clock, cacheFrame>>

Has(key) ==
    /\ cache' = CacheGet(cache, key, clock).cache
    /\ call' = [op |-> "has", key |-> key, result |-> CacheGet(cache, key, clock).hit]
    /\ UNCHANGED <<clock, cacheFrame>>

Delete(key) ==
    /\ cache' = CacheDelete(cache, key)
    /\ call' = [op |-> "delete", key |-> key]
    /\ UNCHANGED <<clock, cacheFrame>>

\* cleanup(), called by the interval timer or at shutdown
Cleanup ==
    /\ cache' = CacheCleanup(cache, clock).cache
    /\ call' = [op |-> "cleanup", result |-> CacheCleanup(cache, clock).cleaned]
    /\ UNCHANGED <<clock, cacheFrame>>

Clear ==
    /\ cache' = << >>
    /\ call' = [op |-> "clear"]
    /\ UNCHANGED <<clock, cacheFrame>>

\* time passes between two calls
Tick ==
    /\ clock < MaxClock
    /\ clock' = clock + 1
    /\ UNCHANGED <<cache, call, cacheFrame>>

NextCache ==
    \/ \E key \in Keys, ttl \in TTLs : Set(key, ttl)
    \/ \E key \in Keys : Get(key)
    \/ \E key \in Keys : Has(key)
    \/ \E key \in Keys : Delete(key)
    \/ Cleanup
    \/ Clear
    \/ Tick

SpecCache == InitCache /\ [][NextCache]_vars

\* C20: after any sequence of set, get, has, delete and cleanup calls at any
\* times, several set calls within one clock tick included, the cache never
\* holds more than maxEntries entries.
C20_CacheBounded == Len(cache) <= maxEntries


-----------------------------------------------------------------------------
(* AlphaVantageClient: rate limiting and retries of makeRequest.  Time is in
   seconds and clock is Date.now().  Each makeRequest call is a process that
   runs from one await to the next without interruption, as on the
   JavaScript event loop; a timer fires at its time or later. *)

rateLimitCalls  == 2
rateLimitWindow == 4
maxRetries      == 3
NumRequests     == 2
MaxTime         == 4
RateLimitBuffer == 1
NoteWait        == 60
MaxBackoff      == 10
Responses       == {"ok", "error", "note"}

RECURSIVE Pow2(_)
Pow2(n) == IF n = 0 THEN 1 ELSE 2 * Pow2(n - 1)

\* Math.min(1000 * Math.pow(2, attempt - 1), 10000), in seconds
backoffTime(attempt) == Min(Pow2(attempt - 1), MaxBackoff)

\* the filter of isWithinRateLimit
RecentCalls(callHistory, now) ==
    SelectSeq(callHistory, LAMBDA callTime : now - callTime < rateLimitWindow)

\* isWithinRateLimit() after its filter
isWithinRateLimit(callHistory, now) ==
    Len(RecentCalls(callHistory, now)) < rateLimitCalls

\* a makeRequest call: made counts its fetches and last is the answer to the
\* latest one
NotStarted == [pc |-> "idle", attempt |-> 0, wakeAt |-> 0, made |-> 0,
               last |-> "none"]

InitClient ==
    /\ IdleRun /\ IdleMonteCarlo /\ IdleComparison
    /\ IdlePortfolio
    /\ costModel = TransactionCostModel([fixedCost |-> 0])
    /\ targetWeights = [s \in SymbolSet |-> 500]
    /\ frequency = "monthly"
    /\ threshold = DefaultThreshold
    /\ lastRebalanceDate = NoDate
    /\ IdleEngine
    /\ IdleWalk
    /\ cache = << >>
    /\ clock = 0
    /\ \E configured \in BOOLEAN :
          client = [apiKeyConfigured |-> configured, callHistory |-> << >>]
    /\ requests = [p \in 1..NumRequests |-> NotStarted]
    /\ call = NoCall

clientFrame == <<portfolioVars, costModel, strategyVars, engineVars, walkVars,
                 runVars, monteCarloVars, cache, comparison>>

\* makeRequest(params) up to its first await: the apiKey test, then
\* waitForRateLimit up to its return or its setTimeout
MakeRequest(p) ==
    /\ requests[p].pc = "idle"
    /\ IF ~client.apiKeyConfigured
       THEN /\ requests' = [requests EXCEPT ![p].pc = "threw"]
            /\ UNCHANGED client
       ELSE LET recent == RecentCalls(client.callHistory, clock)
            IN  /\ client' = [client EXCEPT !.callHistory = recent]
                /\ IF isWithinRateLimit(client.callHistory, clock)
                   THEN requests' = [requests EXCEPT ![p] =
                            [@ EXCEPT !.pc = "ready", !.attempt = 1,
                                      !.wakeAt = clock]]
                   ELSE LET oldestCall == MinSeq(recent)
                            waitTime == rateLimitWindow - (clock - oldestCall)
                        IN  requests' = [requests EXCEPT ![p] =
                                [@ EXCEPT !.pc = "sleeping", !.attempt = 1,
                                   !.wakeAt = clock + waitTime + RateLimitBuffer]]
    /\ call' = [op |-> "makeRequest", request |-> p]
    /\ UNCHANGED <<clock, clientFrame>>

\* a setTimeout of the request fires: the wait of waitForRateLimit, the
\* backoff of a failed attempt or the minute after a rate limit note.  The
\* continue after a note ends the for-loop when attempt was maxRetries, and
\* the function then ends without a return statement: "fellThrough"
TimerFires(p) ==
    /\ requests[p].pc = "sleeping"
    /\ clock >= requests[p].wakeAt
    /\ requests' = [requests EXCEPT ![p].pc =
                       IF requests[p].attempt <= maxRetries THEN "ready"
                       ELSE "fellThrough"]
    /\ UNCHANGED <<client, clock, call, clientFrame>>

\* one turn of the for-loop up to await fetch(url)
Attempt(p) ==
    /\ requests[p].pc = "ready"
    /\ client' = [client EXCEPT !.callHistory = Append(@, clock)]
    /\ requests' = [requests EXCEPT ![p].pc = "fetching", ![p].made = @ + 1]
    /\ call' = [op |-> "fetch", request |-> p, attempt |-> requests[p].attempt]
    /\ UNCHANGED <<clock, clientFrame>>

\* the response arrives: data returned, an error caught, or the API's rate
\* limit note
Respond(p, response) ==
    /\ requests[p].pc = "fetching"
    /\ requests' = [requests EXCEPT ![p] =
          CASE response = "ok" -> [@ EXCEPT !.pc = "returned", !.last = response]
            [] response = "note" ->
                  [@ EXCEPT !.pc = "sleeping", !.attempt = @ + 1,
                            !.wakeAt = clock + NoteWait, !.last = response]
            [] OTHER ->
                  IF @.attempt = maxRetries
                  THEN [@ EXCEPT !.pc = "threw", !.last = response]
                  ELSE [@ EXCEPT !.pc = "sleeping", !.attempt = @ + 1,
                                 !.wakeAt = clock + backoffTime(requests[p].attempt),
                                 !.last = response]]
    /\ call' = [op |-> "response", request |-> p, response |-> response]
    /\ UNCHANGED <<client, clock, clientFrame>>

\* a second passes
Second ==
    /\ clock < MaxTime
    /\ clock' = clock + 1
    /\ UNCHANGED <<client, requests, call, clientFrame>>

Sleeping == {p \in 1..NumRequests : requests[p].pc = "sleeping"}

\* nothing happens until the next timer is due
SleepUntilTimer ==
    /\ Sleeping # {}
    /\ \A p \in 1..NumRequests : requests[p].pc \in {"sleeping", "returned", "threw", "fellThrough", "idle"}
    /\ \E p \in Sleeping :
          /\ \A q \in Sleeping : requests[p].wakeAt <= requests[q].wakeAt
          /\ requests[p].wakeAt > clock
          /\ clock' = requests[p].wakeAt
    /\ UNCHANGED <<client, requests, call, clientFrame>>

NextClient ==
    \/ \E p \in 1..NumRequests : MakeRequest(p)
    \/ \E p \in 1..NumRequests : TimerFires(p)
    \/ \E p \in 1..NumRequests : Attempt(p)
    \/ \E p \in 1..NumRequests, response \in Responses : Respond(p, response)
    \/ Second
    \/ SleepUntilTimer

SpecClient == InitClient /\ [][NextClient]_vars

\* the requests issued in the rateLimitWindow that ends with the request at t
IssuedInWindowEndingAt(t) ==
    Len(SelectSeq(client.callHistory,
                  LAMBDA u : u <= t /\ t - u < rateLimitWindow))

\* C21: the client never issues more than rateLimitCalls requests within any
\* rateLimitWindow, for any interleaving of concurrent makeRequest calls and
\* with retried attempts counted.
C21_RateLimitRespected ==
    \A i \in 1..Len(client.callHistory) :
        IssuedInWindowEndingAt(client.callHistory[i]) <= rateLimitCalls


-----------------------------------------------------------------------------
(* executeTrade's affordability test under rounding.  A JavaScript number
   has a 53 bit significand and every sum and difference is rounded to the
   nearest representable number.  The model keeps that rounding with a
   decimal significand of SignificantDigits digits: small enough for TLC to
   enumerate, and with the same property that (a + b) - a need not be b. *)

SignificantDigits == 3

RECURSIVE Pow10(_)
Pow10(n) == IF n = 0 THEN 1 ELSE 10 * Pow10(n - 1)

RECURSIVE DigitsOf(_)
\* number of decimal digits of x >= 0
DigitsOf(x) == IF x < 10 THEN 1 ELSE 1 + DigitsOf(x \div 10)

\* x rounded to the nearest number with SignificantDigits digits, ties to even
RoundToPrecision(x) ==
    LET a == Abs(x)
        unit == Pow10(DigitsOf(a) - SignificantDigits)
        q == a \div unit
        r == a % unit
        up == 2 * r > unit \/ (2 * r = unit /\ q % 2 = 1)
        rounded == (IF up THEN q + 1 ELSE q) * unit
    IN  IF DigitsOf(a) <= SignificantDigits THEN x
        ELSE IF x < 0 THEN -rounded ELSE rounded

\* a + b and a - b of two numbers
FloatAdd(a, b) == IF IsNaN(a) \/ IsNaN(b) THEN NaN ELSE RoundToPrecision(a + b)
FloatSub(a, b) == IF IsNaN(a) \/ IsNaN(b) THEN NaN ELSE RoundToPrecision(a - b)

\* costs.totalCost as a number
FloatTotalCost(model, tradeValue) ==
    LET total == TotalCostOf(calculateTradeCost(model, tradeValue, DefaultDailyVolume))
    IN  IF IsNaN(total) THEN NaN ELSE RoundToPrecision(total)

RECURSIVE executeTradeRounded(_, _, _, _, _)
\* executeTrade up to "Execute the trade": the number of nested calls made and
\* how the innermost one ended; "stack_overflow" stands for a recursion that
\* was still going on after MaxRecursion nested calls
executeTradeRounded(cashNow, currentValue, targetValue, model, depth) ==
    LET tradeValue == FloatSub(targetValue, currentValue)
        totalCost == FloatTotalCost(model, tradeValue)
    IN  IF NGt(FloatAdd(tradeValue, totalCost), cashNow)
        THEN LET availableCash == FloatSub(cashNow, totalCost)
             IN  IF NGt(availableCash, 0)
                 THEN IF depth >= MaxRecursion
                      THEN [calls |-> depth + 1, outcome |-> "stack_overflow",
                            targetValue |-> targetValue]
                      ELSE executeTradeRounded(cashNow, currentValue,
                              FloatAdd(currentValue, NMin(tradeValue, availableCash)),
                              model, depth + 1)
                 ELSE [calls |-> depth + 1, outcome |-> "insufficient_funds",
                       targetValue |-> targetValue]
        ELSE [calls |-> depth + 1, outcome |-> "executed", targetValue |-> targetValue]

\* amounts with at most SignificantDigits digits
CashAmounts    == {300, 5000, 40700, 100000}
PositionValues == {0, 5000, 50000, 196000}
TargetValues   == {0, 1000, 5200, 40000, 50500, 101000, 237000, 300000}

InitRounded == InitCost

\* executeTrade on a portfolio with the given cash and position value
ExecuteTradeRounded(cashNow, currentValue, targetValue) ==
    /\ call' = [op |-> "executeTrade", cash |-> cashNow,
                currentValue |-> currentValue, targetValue |-> targetValue,
                result |-> executeTradeRounded(cashNow, currentValue, targetValue,
                                               costModel, 0)]
    /\ UNCHANGED <<portfolioVars, costModel, strategyVars, engineVars, walkVars,
                   analysisVars>>

NextRounded ==
    /\ call.op = "none"
    /\ \E cashNow \in CashAmounts, currentValue \in PositionValues,
          targetValue \in TargetValues :
             ExecuteTradeRounded(cashNow, currentValue, targetValue)

SpecRounded == InitRounded /\ [][NextRounded]_vars

\* C22: the partial-fill path of executeTrade recurses at most once: the
\* reduced trade passes the affordability test of the recursive call, so every
\* executeTrade call ends after at most two nested calls.
C22_RecursesAtMostOnce ==
    call.op = "executeTrade" =>
        /\ call.result.calls <= 2
        /\ call.result.outcome # "stack_overflow"


-----------------------------------------------------------------------------
(* The date ranges of the walk-forward windows.  A date is its index in the
   sorted allDates. *)

\* extractDataForWindow(timeWindow): the dates whose rows are kept
extractDataForWindow(start, end, length) ==
    {d \in 0..(length - 1) : d >= start /\ d <= end}

OptimizationDates(w) ==
    extractDataForWindow(w.optimizationStart, w.optimizationEnd, numDates)

TestDates(w) == extractDataForWindow(w.testStart, w.testEnd, numDates)

\* C23: every window of generateTimeWindows optimizes on exactly
\* lookbackWindow consecutive dates and tests on exactly holdoutWindow
\* consecutive dates starting right after the optimization range; the two
\* ranges share no date, and consecutive windows start stepSize dates apart.
C23_WindowRanges ==
    call.op = "generateTimeWindows" =>
        /\ \A i \in 1..Len(call.windows) :
              LET w == call.windows[i]
              IN  /\ Cardinality(OptimizationDates(w)) = wfConfig.lookbackWindow
                  /\ Cardinality(TestDates(w)) = wfConfig.holdoutWindow
                  /\ w.testStart = w.optimizationEnd + 1
                  /\ OptimizationDates(w) \cap TestDates(w) = {}
        /\ \A i \in 1..(Len(call.windows) - 1) :
              /\ call.windows[i + 1].optimizationStart
                    = call.windows[i].optimizationStart + wfConfig.stepSize
              /\ call.windows[i + 1].testStart
                    = call.windows[i].testStart + wfConfig.stepSize

\* C23 witness: a run with several windows whose lookback, holdout and step
\* all differ
C23_Witness ==
    /\ call.op = "generateTimeWindows"
    /\ Len(call.windows) >= 2
    /\ wfConfig.lookbackWindow = 3
    /\ wfConfig.holdoutWindow = 2
    /\ wfConfig.stepSize = 1
    /\ TestDates(call.windows[2]) = {4, 5}


-----------------------------------------------------------------------------
(* The walk-forward aggregation as a function of the list of periods *)

MaxPeriods == 3

\* a completed period with the parameters its optimization chose
CompletedPeriod(parameters, outcome) ==
    [processWalkForwardPeriod([optimizationStart |-> 0, testEnd |-> 0], outcome)
        EXCEPT !.optimalParameters = parameters]

CandidatePeriods ==
    { CompletedPeriod([lookback |-> 50], [inSample |-> "ok",
          outOfSample |-> PeriodStats(50, 800, 20, <<30, 20>>)]),
      CompletedPeriod([lookback |-> 100], [inSample |-> "ok",
          outOfSample |-> PeriodStats(-100, 300, 150, <<-150, 50>>)]),
      CompletedPeriod([lookback |-> 100], [inSample |-> "ok",
          outOfSample |-> PeriodStats(-40, -500, 60, <<-40>>)]),
      CompletedPeriod([lookback |-> 50], [inSample |-> "ok",
          outOfSample |-> NullStats]),
      CompletedPeriod(FallbackParameters, [inSample |-> "throws",
          outOfSample |-> NullStats]) }

PeriodLists ==
    UNION {[1..n -> CandidatePeriods] : n \in 1..MaxPeriods}

\* what runWalkForwardAnalysis computes after its loop
AggregationOf(ps) ==
    LET score == calculateRobustnessScore(ps)
    IN  [aggregateStats |-> calculateAggregateStats(ps),
         robustnessScore |-> score,
         isRobust |-> score >= RobustnessThreshold,
         bestParameters |-> findBestParameters(ps)]

InitAggregation == InitCost

Aggregate(ps) ==
    /\ call' = [op |-> "aggregate", periods |-> ps, result |-> AggregationOf(ps)]
    /\ UNCHANGED <<portfolioVars, costModel, strategyVars, engineVars, walkVars,
                   analysisVars>>

NextAggregation ==
    /\ call.op = "none"
    /\ \E ps \in PeriodLists : Aggregate(ps)

SpecAggregation == InitAggregation /\ [][NextAggregation]_vars

\* C24: the walk-forward aggregation does not depend on the order of the
\* windows: every permutation of the same completed periods gives the same
\* aggregateStats, robustnessScore, isRobust and bestParameters.
C24_WindowOrderIrrelevant ==
    call.op = "aggregate" =>
        \A perm \in Permutations(1..Len(call.periods)) :
            AggregationOf(Permuted(call.periods, perm)) = call.result


-----------------------------------------------------------------------------
(* calculateStrategyRankings as a function of the strategies' metrics *)

RankedNames == <<"equalWeight", "meanVariance", "riskParity">>

\* Sharpe ratio, total return and robustness of each strategy: all different,
\* so that these three ranks do not move
FixedMetrics ==
    [equalWeight  |-> [sharpeRatio |-> 800, totalReturn |-> 100, robustness |-> 900],
     meanVariance |-> [sharpeRatio |-> 300, totalReturn |-> 120, robustness |-> 600],
     riskParity   |-> [sharpeRatio |-> 500, totalReturn |-> 80,  robustness |-> 700]]

DrawdownChoices   == {50, 100, 150}
VolatilityChoices == {100, 200}

\* the entry of results.strategies for a strategy that ran without error
StrategyEntry(name, maxDrawdown, volatility) ==
    [name |-> name, error |-> FALSE,
     sharpeRatio |-> FixedMetrics[name].sharpeRatio,
     totalReturn |-> FixedMetrics[name].totalReturn,
     maxDrawdown |-> Abs(maxDrawdown), volatility |-> volatility,
     robustness |-> FixedMetrics[name].robustness]

\* the overall score of a strategy in the rankings
OverallScore(rankings, name) ==
    LET i == CHOOSE j \in 1..Len(rankings.overall) : rankings.overall[j].name = name
    IN  rankings.overall[i].score

InitRankings == InitCost

CalculateStrategyRankings(drawdowns, volatilities) ==
    LET strategies == [i \in 1..Len(RankedNames) |->
                          StrategyEntry(RankedNames[i], drawdowns[i], volatilities[i])]
    IN  /\ call' = [op |-> "calculateStrategyRankings", strategies |-> strategies,
                    result |-> calculateStrategyRankings(strategies)]
        /\ UNCHANGED <<portfolioVars, costModel, strategyVars, engineVars, walkVars,
                       analysisVars>>

NextRankings ==
    /\ call.op = "none"
    /\ \E drawdowns \in [1..Len(RankedNames) -> DrawdownChoices],
          volatilities \in [1..Len(RankedNames) -> VolatilityChoices] :
             CalculateStrategyRankings(drawdowns, volatilities)

SpecRankings == InitRankings /\ [][NextRankings]_vars

\* C25: max drawdown and volatility count inversely: with the ranks on Sharpe
\* ratio, total return and robustness held fixed, a strategy with a higher
\* max drawdown, or a higher volatility, never has a higher overall score
\* than it has with the lower one.
C25_LowerRiskNeverScoresLower ==
    call.op = "calculateStrategyRankings" =>
        \A k \in 1..Len(call.strategies) :
            /\ \A d \in DrawdownChoices :
                  d > call.strategies[k].maxDrawdown =>
                     OverallScore(calculateStrategyRankings(
                                     [call.strategies EXCEPT ![k].maxDrawdown = d]),
                                  call.strategies[k].name)
                        <= OverallScore(call.result, call.strategies[k].name)
            /\ \A v \in VolatilityChoices :
                  v > call.strategies[k].volatility =>
                     OverallScore(calculateStrategyRankings(
                                     [call.strategies EXCEPT ![k].volatility = v]),
                                  call.strategies[k].name)
                        <= OverallScore(call.result, call.strategies[k].name)


-----------------------------------------------------------------------------
(* The dates of a backtest.  runBacktest is one sequential loop whose awaits
   all resolve, so the control of runBacktest and simulateTradingDay moves on
   whenever it is not at the end. *)

\* the control flow of runBacktest and simulateTradingDay
LoopAdvances ==
    \/ pc = "initialized" /\ pc' = "market_data"
    \/ pc = "market_data" /\ pc' \in {"rebalance_check", "done"}
    \/ pc = "rebalance_check" /\ pc' = "market_data"

SpecBacktestLive == SpecBacktest /\ WF_pc(LoopAdvances)

\* the dates of the market data updates so far, in the order they were made
MarketDates ==
    LET updates == SelectSeq(events, LAMBDA e : e[1] = "market_data_update")
    IN  [i \in 1..Len(updates) |-> updates[i][2]]

\* every date of any symbol
UnionOfDates == UNION {DOMAIN historicalData[s] : s \in SymbolSet}

DatesInOrderOnce ==
    /\ \A i, j \in 1..Len(MarketDates) : i < j => MarketDates[i] < MarketDates[j]
    /\ {MarketDates[i] : i \in 1..Len(MarketDates)} \subseteq UnionOfDates
    /\ pc = "done" => {MarketDates[i] : i \in 1..Len(MarketDates)} = UnionOfDates

\* the market data update of a date re-prices the symbols priced on it and no
\* other
RepricedOnlyIfPriced ==
    (pc = "market_data" /\ pc' = "rebalance_check") =>
        \A s \in SymbolSet :
            IF CurrentDate \in DOMAIN historicalData[s]
            THEN positions'[s].currentPrice = historicalData[s][CurrentDate]
            ELSE /\ positions'[s].currentPrice = positions[s].currentPrice
                 /\ positions'[s].value = positions[s].value
                 /\ positions'[s].shares = positions[s].shares

\* the rebalance of a date trades the symbols priced on it and no other
TradedOnlyIfPriced ==
    (pc = "rebalance_check" /\ call'.op = "handleRebalance") =>
        \A s \in SymbolSet :
            IF CurrentDate \in DOMAIN historicalData[s]
            THEN \E i \in 1..Len(call'.trades) : call'.trades[i].symbol = s
            ELSE /\ \A i \in 1..Len(call'.trades) : call'.trades[i].symbol # s
                 /\ positions'[s] = positions[s]

-----------------------------------------------------------------------------
(* ParameterPerturbation.  A parameter value is [number |-> v] with v in
   1/WeightScale, or a value of another type; Math.random() and the
   perturbations are in 1/WeightScale too. *)

DefaultPerturbationMagnitude == 100
Magnitudes    == {DefaultPerturbationMagnitude, 200}
RandomValues  == {0, 125, 250, 500, 750, 999}

\* typeof value === 'number'
IsNumber(value) == "number" \in DOMAIN value

\* (Math.random() - 0.5) * 2 * perturbationMagnitude
PerturbationOf(random, magnitude) ==
    Quot((random - 500) * 2 * magnitude, WeightScale)

\* value * (1 + perturbation)
PerturbedValue(v, perturbation) == Quot(v * (WeightScale + perturbation), WeightScale)

\* the perturbation drawn from [0, 2 * magnitude) instead
generatePerturbedParametersOneSided(base, magnitude, randoms) ==
    [parameters |->
        [p \in DOMAIN base |->
            IF IsNumber(base[p])
            THEN [number |-> PerturbedValue(base[p].number,
                                 Quot(randoms[p] * 2 * magnitude, WeightScale))]
            ELSE base[p]],
     perturbations |->
        [p \in DOMAIN base |->
            IF IsNumber(base[p]) THEN Quot(randoms[p] * 2 * magnitude, WeightScale)
            ELSE 0]]

\* generatePerturbedParameters(); randoms[p] is the Math.random() drawn for p
generatePerturbedParameters(base, magnitude, randoms) ==
    [parameters |->
        [p \in DOMAIN base |->
            IF IsNumber(base[p])
            THEN [number |-> PerturbedValue(base[p].number,
                                 PerturbationOf(randoms[p], magnitude))]
            ELSE base[p]],
     perturbations |->
        [p \in DOMAIN base |->
            IF IsNumber(base[p]) THEN PerturbationOf(randoms[p], magnitude) ELSE 0]]

\* the parameters of one trial of runMonteCarloSimulations: perturbed when
\* Math.random() < 0.5; baseParameters is the simulator's object afterwards
TrialParameters(base, magnitude, coin, randoms) ==
    IF coin < 500
    THEN LET perturbationResult == generatePerturbedParameters(base, magnitude, randoms)
         IN  [parameters |-> perturbationResult.parameters,
              perturbations |-> perturbationResult.perturbations,
              baseParameters |-> base]
    ELSE [parameters |-> base, perturbations |-> << >>, baseParameters |-> base]

BaseParameterChoices ==
    { [lookback |-> [number |-> 20000], threshold |-> [number |-> 50],
       method |-> [text |-> "risk_parity"]],
      [riskAversion |-> [number |-> -2500], weights |-> [list |-> <<500, 500>>]] }

InitPerturbation == InitCost

GenerateTrialParameters(base, magnitude, coin, randoms) ==
    /\ call' = [op |-> "trialParameters", base |-> base, magnitude |-> magnitude,
                perturbed |-> coin < 500,
                randoms |-> IF coin < 500 THEN randoms ELSE << >>,
                result |-> TrialParameters(base, magnitude, coin, randoms)]
    /\ UNCHANGED <<portfolioVars, costModel, strategyVars, engineVars, walkVars,
                   analysisVars>>

NextPerturbation ==
    /\ call.op = "none"
    /\ \E base \in BaseParameterChoices, magnitude \in Magnitudes, coin \in {250, 750} :
          \E randoms \in [DOMAIN base -> RandomValues] :
             GenerateTrialParameters(base, magnitude, coin, randoms)

SpecPerturbation == InitPerturbation /\ [][NextPerturbation]_vars

\* C27: a perturbed trial gets, for each numeric base parameter v, the value
\* v * (1 + u) with |u| <= perturbationMagnitude and u recorded for it, and
\* every other parameter unchanged with recorded perturbation 0; the base
\* parameters are not modified, and an unperturbed trial runs with exactly
\* the base parameters.
C27_PerturbationWithinMagnitude ==
    call.op = "trialParameters" =>
        /\ call.result.baseParameters = call.base
        /\ ~call.perturbed =>
              /\ call.result.parameters = call.base
              /\ call.result.perturbations = << >>
        /\ call.perturbed =>
              /\ DOMAIN call.result.parameters = DOMAIN call.base
              /\ DOMAIN call.result.perturbations = DOMAIN call.base
              /\ \A p \in DOMAIN call.base :
                    IF IsNumber(call.base[p])
                    THEN /\ Abs(call.result.perturbations[p]) <= call.magnitude
                         /\ call.result.parameters[p] =
                               [number |-> PerturbedValue(call.base[p].number,
                                               call.result.perturbations[p])]
                    ELSE /\ call.result.parameters[p] = call.base[p]
                         /\ call.result.perturbations[p] = 0

\* C27 witness: a perturbed trial in which a numeric parameter moved by the
\* full magnitude downwards and a non-numeric one is present
C27_Witness ==
    /\ call.op = "trialParameters"
    /\ call.perturbed
    /\ "method" \in DOMAIN call.base
    /\ call.result.perturbations["lookback"] = -call.magnitude
    /\ call.result.parameters["lookback"].number < call.base["lookback"].number
    /\ call.result.parameters["method"] = call.base["method"]


-----------------------------------------------------------------------------
(* The filter at the end of runMonteCarloSimulations *)

\* the trials whose scenario runMonteCarloSimulations returns
PassedOnTrials == {i \in 1..Len(simulations) : NotMarkedFailed(simulations[i])}

\* C28: the scenarios runMonteCarloSimulations passes on to the aggregation
\* are exactly those of the trials whose strategy function did not throw:
\* every failed trial is removed and no successful one, whatever its total
\* return.
C28_FilterRemovesExactlyFailedTrials ==
    (call.op = "runConfidenceAnalysis" /\ Len(call.behaviours) = Len(simulations)
        /\ Len(simulations) > 0)
      => PassedOnTrials = SucceededTrials


-----------------------------------------------------------------------------
(* The effect of an executed trade *)

\* cash + the sum of the position values
CashAndPositions(cashNow, pos) ==
    LET RECURSIVE SumFrom(_)
        SumFrom(i) == IF i > Len(Symbols) THEN 0
                      ELSE NAdd(pos[Symbols[i]].value, SumFrom(i + 1))
    IN  NAdd(cashNow, SumFrom(1))

\* C29: an executed trade with trade value v and total cost c lowers cash by
\* exactly v + c, changes the market value of the traded position by exactly
\* v and leaves every other position unchanged, so that cash plus position
\* values falls by exactly c; it appends exactly one transaction, whose
\* cashAfter is the new cash.
C29_ExecutedTradeAccounting ==
    call.op = "handleRebalance" =>
        \A i \in 1..Len(call.trades) :
            LET t == call.trades[i]
                v == t.result.value
                c == TotalCostOf(t.result.costs)
            IN  t.result.executed =>
                   /\ ~IsNaN(t.cashAfter)
                   /\ t.cashAfter = t.cashBefore - (v + c)
                   /\ t.positionsAfter[t.symbol].value
                         = t.positionsBefore[t.symbol].value + v
                   /\ \A s \in SymbolSet \ {t.symbol} :
                         t.positionsAfter[s] = t.positionsBefore[s]
                   /\ CashAndPositions(t.cashAfter, t.positionsAfter)
                         = CashAndPositions(t.cashBefore, t.positionsBefore) - c
                   /\ t.logAfter = t.logBefore + 1
                   /\ transactions[t.logAfter].cashAfter = t.cashAfter


-----------------------------------------------------------------------------
(* How a makeRequest call ends *)

Ended(p) == requests[p].pc \in {"returned", "threw", "fellThrough"}

\* C30: every makeRequest call makes at most maxRetries attempts and ends
\* either by returning the response data of a successful attempt or by
\* throwing the error of its last failed attempt (or, before any attempt, the
\* error of the missing API key); it never completes without data and without
\* an error, also when an attempt was answered with a rate limit note.
C30_EndsWithDataOrError ==
    \A p \in 1..NumRequests :
        /\ requests[p].made <= maxRetries
        /\ Ended(p) =>
              \/ requests[p].pc = "returned" /\ requests[p].last = "ok"
              \/ /\ requests[p].pc = "threw"
                 /\ \/ requests[p].last = "error"
                    \/ requests[p].made = 0 /\ ~client.apiKeyConfigured

=============================================================================
